---------------------------- MODULE Spec2Model ----------------------------
(***************************************************************************)
(* A model of the experiment orchestration engine of lib-srt-utils:        *)
(*   srt_utils/process.py         Process (wrapper of one OS process)       *)
(*   srt_utils/object_runners.py  LocalProcess / RemoteProcess (runners)    *)
(*   srt_utils/runners.py         Task, SingleExperimentRunner              *)
(*   srt_utils/common.py          create_local_directory                    *)
(*                                                                         *)
(* Every method is one operator that is evaluated as the code runs it and  *)
(* that yields the SET of its possible results: the choices are those of   *)
(* the environment (does the spawn succeed, does the child react to        *)
(* SIGINT or to kill, is the control channel up).  An orchestrator call is *)
(* one atomic action, the program being single-threaded; the child         *)
(* processes run on their own and are the environment's actions.           *)
(*                                                                         *)
(* Six specifications share the variables: Spec calls the methods of       *)
(* SingleExperimentRunner in any order, RunnerSpec calls the methods of    *)
(* the runners directly, ProcessSpec those of the process wrappers,        *)
(* ScriptSpec runs main of scripts/run_experiment.py, ObjectSpec builds    *)
(* the objects of objects.py from bounded configurations and applies       *)
(* make_args, make_str and the factory to them, BuildSpec constructs the   *)
(* orchestrator from configurations that may name unknown types and        *)
(* starts it.                                                              *)
(*                                                                         *)
(* Names across the sources.  runners.py builds the runners as             *)
(* object_runners.LocalRunner / RemoteRunner, reads their `status` and     *)
(* handles SrtUtilsException; object_runners.py defines these runners as   *)
(* LocalProcess / RemoteProcess with get_status() and names their error    *)
(* ObjectRunnersException, and its handlers name the process wrapper's     *)
(* errors ProcessNotStarted / ProcessNotStopped, where process.py raises   *)
(* SrtUtilsException.  The model takes each pair as one thing: the runner  *)
(* of a task is the LocalProcess / RemoteProcess of object_runners.py, and *)
(* the errors the library raises itself (LibraryExceptions) are what its   *)
(* own handlers catch.  Errors of other origin (an exception of the        *)
(* control channel that no handler names) pass through every handler.      *)
(***************************************************************************)
EXTENDS Integers, Sequences, FiniteSets, TLC

(***************************************************************************)
(* Bounds                                                                  *)
(***************************************************************************)
\* number of tasks of the experiment
NumTasks == 2

Tasks == 1..NumTasks

(***************************************************************************)
(* Configuration: runners.py Task.__init__ and the objects of objects.py.   *)
(* statsdir is meaningful for srt-xtransmit only.                           *)
(***************************************************************************)
TaskConfigs ==
  << [obj_type |-> "tshark", runner_type |-> "local-runner", statsdir |-> FALSE,
      sleep_after_start |-> TRUE, sleep_after_stop |-> TRUE],
     [obj_type |-> "srt-xtransmit", runner_type |-> "remote-runner", statsdir |-> TRUE,
      sleep_after_start |-> FALSE, sleep_after_stop |-> FALSE],
     [obj_type |-> "netem", runner_type |-> "local-runner", statsdir |-> FALSE,
      sleep_after_start |-> FALSE, sleep_after_stop |-> TRUE],
     [obj_type |-> "srt-xtransmit", runner_type |-> "local-runner", statsdir |-> TRUE,
      sleep_after_start |-> TRUE, sleep_after_stop |-> FALSE] >>

\* the experiments checked: the task configurations above, taken in a row
\* from any starting point
ExperimentConfigs ==
  { [t \in Tasks |-> TaskConfigs[((t + k) % Len(TaskConfigs)) + 1]] :
      k \in 0..(Len(TaskConfigs) - 1) }

\* objects.py: Tshark and SrtXtransmit with statsdir set dirpath and filepath,
\* Netem and SrtXtransmit without statsdir leave both None
HasFilepath(cfg) ==
  \/ cfg.obj_type = "tshark"
  \/ cfg.obj_type = "srt-xtransmit" /\ cfg.statsdir

HasDirpath(cfg) == HasFilepath(cfg)

\* process.py:131 `'netem' not in self.args`: Netem.make_args() holds the
\* element 'netem'; RemoteProcess.__init__ wraps every argument in quotes,
\* so that its list holds '"netem"' instead
ArgsContainNetem(cfg) ==
  cfg.obj_type = "netem" /\ cfg.runner_type = "local-runner"

VARIABLES
  config,      \* the task configurations the orchestrator was built from
  ignore_stop_order,  \* SingleExperimentRunner.ignore_stop_order
  is_started,  \* SingleExperimentRunner.is_started
  is_stopped,  \* SingleExperimentRunner.is_stopped
  tasks,       \* tasks[t]: the runner of task t and, in it, its Process
  disk,        \* the files and directories the code looks at
  op,          \* the call made by the last step ("env" for the environment)
  outcome,     \* how that call ended: [exc, why]
  trace,       \* what that call did, in order
  pre,         \* the orchestrator as that call found it
  script,      \* the run script: where it is and what it has seen
  obj,         \* one object of objects.py and what was last made of it
  built        \* what SingleExperimentRunner.__init__ made of the configuration

vars == <<config, ignore_stop_order, is_started, is_stopped, tasks, disk, op, outcome, trace, pre, script, obj,
          built>>

(***************************************************************************)
(* Exceptions                                                              *)
(***************************************************************************)
LibraryExceptions == {"SrtUtilsException", "ObjectRunnersException"}

\* `except SrtUtilsException` of runners.py
Caught(exc) == exc \in LibraryExceptions

Event(ev, t, res) == [ev |-> ev, task |-> t, res |-> res]

(***************************************************************************)
(* process.py: Process.                                                     *)
(* p = [is_started, is_stopped, process], process being "None" (no handle), *)
(* "running" or "exited" (what poll() of the handle tells).                 *)
(***************************************************************************)
NewProcess == [is_started |-> FALSE, is_stopped |-> FALSE, process |-> "None"]

Process_status(p) ==
  IF p.process = "None" THEN "idle"
  ELSE IF ~p.is_started THEN "idle"
  ELSE IF p.process = "running" THEN "running" ELSE "idle"

\* the second element of the tuple that the status property returns
Process_returncode(p) ==
  IF p.process = "None" THEN "None"
  ELSE IF ~p.is_started THEN "None"
  ELSE IF p.process = "running" THEN "None" ELSE "returncode"

\* what the spawn can do: Popen raises OSError, or the child is running when
\* the grace period ends, or it has exited by then
SpawnResults == {"OSError", "running", "exited"}

Process_start(p, cfg, t) ==
  IF p.is_started
  THEN {[p |-> p, exc |-> "SrtUtilsException", evs |-> <<>>]}
  ELSE { IF s = "OSError"
         THEN [p |-> p, exc |-> "SrtUtilsException",
               evs |-> <<Event("spawn", t, s)>>]
         ELSE LET q == [p EXCEPT !.process = s, !.is_started = TRUE] IN
              [p |-> q,
               exc |-> IF Process_status(q) = "idle" /\ ~ArgsContainNetem(cfg)
                       THEN "SrtUtilsException" ELSE "none",
               evs |-> <<Event("spawn", t, s)>>]
         : s \in SpawnResults }

\* how a running child reacts when it is stopped: it has exited by itself
\* when its status is read, it is idle at the first, second or third poll
\* that follows SIGINT, it exits after the third poll and before _kill reads
\* its status, it exits on kill only, or it survives both
AllResponses ==
  {"exited", "interrupted1", "interrupted2", "interrupted3", "gone", "killed",
   "survives"}

\* the reactions drawn when the orchestrator or a runner stops its process:
\* one for every way in which stop() of the process can end
Responses == {"exited", "interrupted1", "killed", "survives"}

\* what the status read of the loop of _terminate sees, in order; every
\* read of self.status of a started process is a poll() of its handle
Polls(resp, t) ==
  IF resp = "interrupted1" THEN <<Event("poll", t, "idle")>>
  ELSE IF resp = "interrupted2"
  THEN <<Event("poll", t, "running"), Event("poll", t, "idle")>>
  ELSE IF resp = "interrupted3"
  THEN <<Event("poll", t, "running"), Event("poll", t, "running"),
         Event("poll", t, "idle")>>
  ELSE <<Event("poll", t, "running"), Event("poll", t, "running"),
         Event("poll", t, "running")>>

\* _terminate with no look at the status before the signal is sent
Process_terminate_NoIdleCheck(p, resp, t) ==
  IF ~p.is_started THEN [p |-> p, exc |-> "SrtUtilsException", evs |-> <<>>]
  ELSE IF p.is_stopped THEN [p |-> p, exc |-> "none", evs |-> <<>>]
  ELSE IF resp = "exited"
  THEN [p |-> [p EXCEPT !.process = "exited"], exc |-> "none", evs |-> <<>>]
  ELSE IF resp \in {"interrupted1", "interrupted2", "interrupted3"}
  THEN [p |-> [p EXCEPT !.process = "exited"], exc |-> "none",
        evs |-> <<Event("SIGINT", t, "sent")>> \o Polls(resp, t)]
  ELSE [p |-> p, exc |-> "SrtUtilsException",
        evs |-> <<Event("SIGINT", t, "sent")>> \o Polls(resp, t)]

Process_terminate(p, resp, t) ==
  IF ~p.is_started THEN [p |-> p, exc |-> "SrtUtilsException", evs |-> <<>>]
  ELSE IF p.is_stopped THEN [p |-> p, exc |-> "none", evs |-> <<>>]
  ELSE IF Process_status(p) = "idle"
  THEN [p |-> p, exc |-> "none", evs |-> <<Event("poll", t, "idle")>>]
  ELSE IF resp = "exited"
  THEN [p |-> [p EXCEPT !.process = "exited"], exc |-> "none",
        evs |-> <<Event("poll", t, "idle")>>]
  ELSE IF resp \in {"interrupted1", "interrupted2", "interrupted3"}
  THEN [p |-> [p EXCEPT !.process = "exited"], exc |-> "none",
        evs |-> <<Event("poll", t, "running"), Event("SIGINT", t, "sent")>>
                \o Polls(resp, t)]
  ELSE [p |-> p, exc |-> "SrtUtilsException",
        evs |-> <<Event("poll", t, "running"), Event("SIGINT", t, "sent")>>
                \o Polls(resp, t)]

\* _kill that does not look at the process after the kill
Process_kill_NoPoll(p, resp, t) ==
  IF ~p.is_started THEN [p |-> p, exc |-> "SrtUtilsException", evs |-> <<>>]
  ELSE IF p.is_stopped THEN [p |-> p, exc |-> "none", evs |-> <<>>]
  ELSE IF Process_status(p) = "idle"
  THEN [p |-> p, exc |-> "none", evs |-> <<Event("poll", t, "idle")>>]
  ELSE IF resp = "gone"
  THEN [p |-> [p EXCEPT !.process = "exited"], exc |-> "none",
        evs |-> <<Event("poll", t, "idle")>>]
  ELSE IF resp = "killed"
  THEN [p |-> [p EXCEPT !.process = "exited"], exc |-> "none",
        evs |-> <<Event("poll", t, "running"), Event("kill", t, "sent")>>]
  ELSE [p |-> p, exc |-> "none",
        evs |-> <<Event("poll", t, "running"), Event("kill", t, "sent")>>]

Process_kill(p, resp, t) ==
  IF ~p.is_started THEN [p |-> p, exc |-> "SrtUtilsException", evs |-> <<>>]
  ELSE IF p.is_stopped THEN [p |-> p, exc |-> "none", evs |-> <<>>]
  ELSE IF Process_status(p) = "idle"
  THEN [p |-> p, exc |-> "none", evs |-> <<Event("poll", t, "idle")>>]
  ELSE IF resp = "gone"
  THEN [p |-> [p EXCEPT !.process = "exited"], exc |-> "none",
        evs |-> <<Event("poll", t, "idle")>>]
  ELSE IF resp = "killed"
  THEN [p |-> [p EXCEPT !.process = "exited"], exc |-> "none",
        evs |-> <<Event("poll", t, "running"), Event("kill", t, "sent"),
                  Event("poll", t, "idle")>>]
  ELSE [p |-> p, exc |-> "SrtUtilsException",
        evs |-> <<Event("poll", t, "running"), Event("kill", t, "sent"),
                  Event("poll", t, "running")>>]

\* stop() that takes the process for stopped whether or not the kill worked
Process_stop_on_StoppedAnyway(p, t, resps) ==
  IF ~p.is_started THEN {[p |-> p, exc |-> "SrtUtilsException", evs |-> <<>>]}
  ELSE IF p.is_stopped THEN {[p |-> p, exc |-> "none", evs |-> <<>>]}
  ELSE { LET term == Process_terminate(p, resp, t) IN
         IF term.exc = "none"
         THEN [p |-> [term.p EXCEPT !.is_stopped = TRUE], exc |-> "none",
               evs |-> term.evs]
         ELSE LET kill == Process_kill(term.p, resp, t) IN
              IF kill.exc = "none"
              THEN [p |-> [kill.p EXCEPT !.is_stopped = TRUE], exc |-> "none",
                    evs |-> term.evs \o kill.evs]
              ELSE [p |-> [kill.p EXCEPT !.is_stopped = TRUE],
                    exc |-> "SrtUtilsException",
                    evs |-> term.evs \o kill.evs]
         : resp \in resps }

\* stop() of a process whose reaction is one of resps
Process_stop_on(p, t, resps) ==
  IF ~p.is_started THEN {[p |-> p, exc |-> "SrtUtilsException", evs |-> <<>>]}
  ELSE IF p.is_stopped THEN {[p |-> p, exc |-> "none", evs |-> <<>>]}
  ELSE { LET term == Process_terminate(p, resp, t) IN
         IF term.exc = "none"
         THEN [p |-> [term.p EXCEPT !.is_stopped = TRUE], exc |-> "none",
               evs |-> term.evs]
         ELSE LET kill == Process_kill(term.p, resp, t) IN
              IF kill.exc = "none"
              THEN [p |-> [kill.p EXCEPT !.is_stopped = TRUE], exc |-> "none",
                    evs |-> term.evs \o kill.evs]
              ELSE [p |-> kill.p, exc |-> "SrtUtilsException",
                    evs |-> term.evs \o kill.evs]
         : resp \in resps }

Process_stop(p, t) == Process_stop_on(p, t, Responses)

Process_collect_results(p) ==
  IF ~p.is_started THEN "SrtUtilsException" ELSE "none"


(***************************************************************************)
(* object_runners.py: the runners.                                          *)
(* r = [is_started, is_stopped, runner], runner being the Process.          *)
(***************************************************************************)
NewRunner == [is_started |-> FALSE, is_stopped |-> FALSE, runner |-> NewProcess]

\* the control channel (fabric.Connection) of a remote runner, at one use
ChannelStates == {"up", "down"}

\* the handlers of start() and stop(): the process wrapper's error becomes
\* the runner's
RunnerError(exc) == IF exc = "none" THEN "none" ELSE "ObjectRunnersException"

LocalProcess_start(r, cfg, t) ==
  IF r.is_started
  THEN {[r |-> r, exc |-> "ObjectRunnersException", evs |-> <<>>]}
  ELSE LET mk == IF HasDirpath(cfg) THEN <<Event("mkdir", t, "local")>> ELSE <<>> IN
       { [r |-> [r EXCEPT !.runner = s.p, !.is_started = (s.exc = "none")],
          exc |-> RunnerError(s.exc),
          evs |-> mk \o s.evs]
         : s \in Process_start(r.runner, cfg, t) }

\* how `mkdir -p` over the control channel can fail: paramiko's SSHException
\* (no agent, authentication), TimeoutError (the machine is down), a result
\* with exited != 0, or an exception that neither handler names: the
\* UnexpectedExit that Connection.run raises for a failed command unless it
\* is told to warn, and the OSError of a connection that is refused
MkdirFaults == {"SSHException", "TimeoutError", "exited", "UnexpectedExit", "OSError"}

\* RemoteProcess._create_directory: the exceptions of the channel that it
\* handles, and the failed mkdir, are raised as the runner's error; any
\* other exception goes through it
RemoteProcess_create_directory(t) ==
  {[exc |-> "none", evs |-> <<Event("mkdir", t, "remote")>>]}
  \cup { [exc |-> IF f \in {"SSHException", "TimeoutError", "exited"}
                  THEN "ObjectRunnersException" ELSE f,
          evs |-> <<Event("mkdir", t, f)>>]
         : f \in MkdirFaults }

RemoteProcess_start(r, cfg, t) ==
  IF r.is_started
  THEN {[r |-> r, exc |-> "ObjectRunnersException", evs |-> <<>>]}
  ELSE LET spawn ==
             { [r |-> [r EXCEPT !.runner = s.p, !.is_started = (s.exc = "none")],
                exc |-> RunnerError(s.exc),
                evs |-> s.evs]
               : s \in Process_start(r.runner, cfg, t) }
       IN IF HasDirpath(cfg)
          THEN UNION { IF m.exc # "none"
                       THEN {[r |-> r, exc |-> m.exc, evs |-> m.evs]}
                       ELSE { [s EXCEPT !.evs = m.evs \o s.evs] : s \in spawn }
                       : m \in RemoteProcess_create_directory(t) }
          ELSE spawn

\* a stop that refuses a runner that is stopped already
Runner_stop_RejectsStopped(r, t) ==
  IF ~r.is_started \/ r.is_stopped
  THEN {[r |-> r, exc |-> "ObjectRunnersException", evs |-> <<>>]}
  ELSE { [r |-> [r EXCEPT !.runner = s.p,
                          !.is_stopped = IF s.exc = "none" THEN TRUE ELSE @],
          exc |-> RunnerError(s.exc),
          evs |-> s.evs]
         : s \in Process_stop(r.runner, t) }

\* a stop with no look at is_started of the runner
Runner_stop_NoStartedGuard(r, t) ==
  { [r |-> [r EXCEPT !.runner = s.p,
                     !.is_stopped = IF s.exc = "none" THEN TRUE ELSE @],
     exc |-> RunnerError(s.exc),
     evs |-> s.evs]
    : s \in Process_stop(r.runner, t) }

\* LocalProcess.stop and RemoteProcess.stop are the same code
Runner_stop(r, t) ==
  IF ~r.is_started
  THEN {[r |-> r, exc |-> "ObjectRunnersException", evs |-> <<>>]}
  ELSE { [r |-> [r EXCEPT !.runner = s.p,
                          !.is_stopped = IF s.exc = "none" THEN TRUE ELSE @],
          exc |-> RunnerError(s.exc),
          evs |-> s.evs]
         : s \in Process_stop(r.runner, t) }

\* TRUE: running, FALSE: idle
get_status(r) ==
  IF ~r.is_started THEN FALSE
  ELSE IF Process_status(r.runner) = "idle" THEN FALSE
  ELSE TRUE

\* collect_results with the look at filepath before the look at the directory
LocalProcess_collect_results_FilepathFirst(r, cfg, t, d) ==
  IF ~r.is_started
  THEN {[disk |-> d, exc |-> "ObjectRunnersException", why |-> "not started"]}
  ELSE IF ~r.is_stopped
  THEN {[disk |-> d, exc |-> "ObjectRunnersException", why |-> "not stopped"]}
  ELSE IF Process_collect_results(r.runner) # "none"
  THEN {[disk |-> d, exc |-> "SrtUtilsException", why |-> "process not started"]}
  ELSE IF ~HasFilepath(cfg)
  THEN {[disk |-> d, exc |-> "none", why |-> "nothing to collect"]}
  ELSE IF ~d.collect_dir
  THEN {[disk |-> d, exc |-> "ObjectRunnersException", why |-> "no directory"]}
  ELSE IF t \notin d.output
  THEN {[disk |-> d, exc |-> "ObjectRunnersException", why |-> "no output"]}
  ELSE IF <<"collect_results_path", "local", <<t, cfg.obj_type>>>> \in d.collected
  THEN {[disk |-> d, exc |-> "ObjectRunnersException", why |-> "destination exists"]}
  ELSE {[disk |-> [d EXCEPT !.collected =
                     @ \cup {<<"collect_results_path", "local", <<t, cfg.obj_type>>>>}],
         exc |-> "none", why |-> "copied"]}

\* a start that sets is_started before it starts the process
Runner_start_StartedFirst(r, cfg, t) ==
  { [s EXCEPT !.r.is_started = TRUE]
    : s \in IF cfg.runner_type = "local-runner"
            THEN LocalProcess_start(r, cfg, t)
            ELSE RemoteProcess_start(r, cfg, t) }

\* task.obj_runner.start(): the runner is the one the factory made for the
\* runner type, None for a type it does not know
Runner_start(r, cfg, t) ==
  IF cfg.runner_type = "local-runner"
  THEN LocalProcess_start(r, cfg, t)
  ELSE IF cfg.runner_type = "remote-runner"
  THEN RemoteProcess_start(r, cfg, t)
  ELSE {[r |-> r, exc |-> "AttributeError", evs |-> <<>>]}

(***************************************************************************)
(* Collecting.  disk = [collect_dir, output, collected]:                    *)
(*   collect_dir  the orchestrator's collect_results_path exists            *)
(*   output       the tasks whose object's filepath exists where it ran     *)
(*   collected    the files that exist on the machine of the script         *)
(***************************************************************************)
\* objects.py:127-137, 259-271 with the prefix of runners.py:140: the name
\* of the output file is made of the task key and the object name
Filename(t, cfg) == <<t, cfg.obj_type>>

LocalDestination(t, cfg) == <<"collect_results_path", "local", Filename(t, cfg)>>

\* RemoteProcess.collect_results: a directory <username>@<host> under the
\* working directory and a fixed file name
RemoteDestination == <<".", "username@host", "olala.pcapng">>

LocalProcess_collect_results(r, cfg, t, d) ==
  IF ~r.is_started
  THEN {[disk |-> d, exc |-> "ObjectRunnersException", why |-> "not started"]}
  ELSE IF ~r.is_stopped
  THEN {[disk |-> d, exc |-> "ObjectRunnersException", why |-> "not stopped"]}
  ELSE IF Process_collect_results(r.runner) # "none"
  THEN {[disk |-> d, exc |-> "SrtUtilsException", why |-> "process not started"]}
  ELSE IF ~d.collect_dir
  THEN {[disk |-> d, exc |-> "ObjectRunnersException", why |-> "no directory"]}
  ELSE IF ~HasFilepath(cfg)
  THEN {[disk |-> d, exc |-> "none", why |-> "nothing to collect"]}
  ELSE IF t \notin d.output
  THEN {[disk |-> d, exc |-> "ObjectRunnersException", why |-> "no output"]}
  ELSE IF LocalDestination(t, cfg) \in d.collected
  THEN {[disk |-> d, exc |-> "ObjectRunnersException", why |-> "destination exists"]}
  ELSE {[disk |-> [d EXCEPT !.collected = @ \cup {LocalDestination(t, cfg)}],
         exc |-> "none", why |-> "copied"]}

\* the channel is used with no handler around it: when it is down, or when
\* the remote file is not there, its exception leaves collect_results
RemoteProcess_collect_results(r, cfg, t, d) ==
  IF ~r.is_started
  THEN {[disk |-> d, exc |-> "ObjectRunnersException", why |-> "not started"]}
  ELSE IF Process_collect_results(r.runner) # "none"
  THEN {[disk |-> d, exc |-> "SrtUtilsException", why |-> "process not started"]}
  ELSE IF ~HasFilepath(cfg)
  THEN {[disk |-> d, exc |-> "none", why |-> "nothing to collect"]}
  ELSE { IF ch = "down"
         THEN [disk |-> d, exc |-> "TimeoutError", why |-> "channel"]
         ELSE IF t \notin d.output
         THEN [disk |-> d, exc |-> "FileNotFoundError", why |-> "channel"]
         ELSE [disk |-> [d EXCEPT !.collected = @ \cup {RemoteDestination}],
               exc |-> "none", why |-> "copied"]
         : ch \in ChannelStates }

Runner_collect_results(r, cfg, t, d) ==
  IF cfg.runner_type = "local-runner"
  THEN LocalProcess_collect_results(r, cfg, t, d)
  ELSE RemoteProcess_collect_results(r, cfg, t, d)

(***************************************************************************)
(* runners.py: SingleExperimentRunner.                                      *)
(* A loop is carried by acc = [tasks, disk, trace, not_stopped_tasks, exc]; *)
(* exc is the exception that left the loop body, "none" while there is none.*)
(***************************************************************************)
\* self.tasks: the tasks in the order of the configuration
TaskOrder == [i \in 1..NumTasks |-> i]

RECURSIVE Reversed(_)
Reversed(s) == IF s = <<>> THEN <<>> ELSE Append(Reversed(Tail(s)), Head(s))

NewAcc(evs) ==
  [tasks |-> tasks, disk |-> disk, trace |-> evs, not_stopped_tasks |-> 0,
   exc |-> "none"]

\* what a call leaves behind; the exception it ends with closes its trace
Result(started, stopped, tks, d, exc, why, evs) ==
  [is_started |-> started, is_stopped |-> stopped, tasks |-> tks, disk |-> d,
   outcome |-> [exc |-> exc, why |-> why],
   trace |-> IF exc = "none" THEN evs ELSE Append(evs, Event("raise", 0, exc))]

\* a call that raises or returns at once
Unchanged(exc, why) == Result(is_started, is_stopped, tasks, disk, exc, why, <<>>)

Sleep(ev, t, set) == IF set THEN <<Event(ev, t, "slept")>> ELSE <<>>

\* ---- start() -------------------------------------------------------------
\* common.py create_local_directory: it returns False when the path exists
\* ("exists"), raises when mkdir fails ("failed") and returns True when it
\* made the directory ("created")
MkdirResults == {"created", "failed"}

create_local_directory(exists) == IF exists THEN {"exists"} ELSE MkdirResults

\* start_task with a rollback: when the start of task t fails, the tasks
\* started before it are stopped
start_task_Rollback(acc, t, s) ==
  IF s.exc # "none"
  THEN [acc EXCEPT !.tasks = [u \in Tasks |->
                               IF u = t THEN s.r
                               ELSE IF acc.tasks[u].is_started
                               THEN [acc.tasks[u] EXCEPT !.is_stopped = TRUE,
                                                         !.runner.is_stopped = TRUE,
                                                         !.runner.process = "exited"]
                               ELSE acc.tasks[u]],
                   !.trace = @ \o <<Event("start", t, s.exc)>> \o s.evs,
                   !.exc = s.exc]
  ELSE [acc EXCEPT !.tasks[t] = s.r,
                   !.trace = @ \o <<Event("start", t, "ok")>> \o s.evs
                               \o Sleep("sleep_after_start", t, config[t].sleep_after_start)]

start_task(acc, t, s) ==
  IF s.exc # "none"
  THEN [acc EXCEPT !.tasks[t] = s.r,
                   !.trace = @ \o <<Event("start", t, s.exc)>> \o s.evs,
                   !.exc = s.exc]
  ELSE [acc EXCEPT !.tasks[t] = s.r,
                   !.trace = @ \o <<Event("start", t, "ok")>> \o s.evs
                               \o Sleep("sleep_after_start", t, config[t].sleep_after_start)]

\* start_loop that goes on to the next task after a task failed to start
RECURSIVE start_loop_GoesOn(_, _)
start_loop_GoesOn(order, acc) ==
  IF order = <<>> THEN {acc}
  ELSE LET t == Head(order) IN
       UNION { start_loop_GoesOn(Tail(order), start_task(acc, t, s))
               : s \in Runner_start(acc.tasks[t], config[t], t) }

RECURSIVE start_loop(_, _)
start_loop(order, acc) ==
  IF order = <<>> \/ acc.exc # "none" THEN {acc}
  ELSE LET t == Head(order) IN
       UNION { start_loop(Tail(order), start_task(acc, t, s))
               : s \in Runner_start(acc.tasks[t], config[t], t) }

\* start without the check of what create_local_directory returns
start_NoDirectoryCheck ==
  IF is_started THEN {Unchanged("SrtUtilsException", "already started")}
  ELSE UNION {
         IF m = "failed"
         THEN {Unchanged("SrtUtilsException", "directory not created")}
         ELSE { Result(a.exc = "none", is_stopped, a.tasks, a.disk, a.exc,
                       IF a.exc = "none" THEN "started" ELSE "task not started",
                       a.trace)
                : a \in start_loop(TaskOrder,
                                   [NewAcc(<<Event("mkdir", 0, m)>>)
                                      EXCEPT !.disk.collect_dir = TRUE]) }
         : m \in create_local_directory(disk.collect_dir) }

\* start that sets is_started whether or not every task started
start_StartedAnyway ==
  IF is_started THEN {Unchanged("SrtUtilsException", "already started")}
  ELSE UNION {
         IF m = "exists"
         THEN {Unchanged("SrtUtilsException", "directory exists")}
         ELSE IF m = "failed"
         THEN {Unchanged("SrtUtilsException", "directory not created")}
         ELSE { Result(TRUE, is_stopped, a.tasks, a.disk, a.exc,
                       IF a.exc = "none" THEN "started" ELSE "task not started",
                       a.trace)
                : a \in start_loop(TaskOrder,
                                   [NewAcc(<<Event("mkdir", 0, m)>>)
                                      EXCEPT !.disk.collect_dir = TRUE]) }
         : m \in create_local_directory(disk.collect_dir) }

\* start with no check of is_started
start_NoStartedGuard ==
  UNION {
    IF m = "exists"
    THEN {Unchanged("SrtUtilsException", "directory exists")}
    ELSE IF m = "failed"
    THEN {Unchanged("SrtUtilsException", "directory not created")}
    ELSE { Result(a.exc = "none", is_stopped, a.tasks, a.disk, a.exc,
                  IF a.exc = "none" THEN "started" ELSE "task not started",
                  a.trace)
           : a \in start_loop(TaskOrder,
                              [NewAcc(<<Event("mkdir", 0, m)>>)
                                 EXCEPT !.disk.collect_dir = TRUE]) }
    : m \in create_local_directory(disk.collect_dir) }

\* _create_directory raises when the directory was there (runners.py:169),
\* create_local_directory raises when it could not make it (common.py:23)
start ==
  IF is_started THEN {Unchanged("SrtUtilsException", "already started")}
  ELSE UNION {
         IF m = "exists"
         THEN {Unchanged("SrtUtilsException", "directory exists")}
         ELSE IF m = "failed"
         THEN {Unchanged("SrtUtilsException", "directory not created")}
         ELSE { Result(a.exc = "none", is_stopped, a.tasks, a.disk, a.exc,
                       IF a.exc = "none" THEN "started" ELSE "task not started",
                       a.trace)
                : a \in start_loop(TaskOrder,
                                   [NewAcc(<<Event("mkdir", 0, m)>>)
                                      EXCEPT !.disk.collect_dir = TRUE]) }
         : m \in create_local_directory(disk.collect_dir) }

\* ---- stop() --------------------------------------------------------------
\* the tasks stopped in the order of the configuration
StopOrder_Declaration == TaskOrder

\* the order of the stop attempts: `for task in reversed(self.tasks)`
StopOrder == Reversed(TaskOrder)

\* stop_task with no handler: the error of the runner leaves the loop
stop_task_NoIsolation(acc, t, s) ==
  LET evs == <<Event("stop", t, IF s.exc = "none" THEN "ok" ELSE s.exc)>> \o s.evs
             \o Sleep("sleep_after_stop", t, config[t].sleep_after_stop)
  IN IF s.exc = "none"
     THEN [acc EXCEPT !.tasks[t] = s.r, !.trace = @ \o evs]
     ELSE [acc EXCEPT !.tasks[t] = s.r, !.trace = @ \o evs, !.exc = s.exc]

\* stop_task with the sleep after a stop that succeeded only
stop_task_SleepOnSuccess(acc, t, s) ==
  LET evs == <<Event("stop", t, IF s.exc = "none" THEN "ok" ELSE s.exc)>> \o s.evs
  IN IF s.exc = "none"
     THEN [acc EXCEPT !.tasks[t] = s.r,
                      !.trace = @ \o evs
                                  \o Sleep("sleep_after_stop", t, config[t].sleep_after_stop)]
     ELSE IF Caught(s.exc)
     THEN [acc EXCEPT !.tasks[t] = s.r, !.trace = @ \o evs,
                      !.not_stopped_tasks = @ + 1]
     ELSE [acc EXCEPT !.tasks[t] = s.r, !.trace = @ \o evs, !.exc = s.exc]

\* try: stop / except SrtUtilsException: count, continue / finally: sleep
stop_task(acc, t, s) ==
  LET evs == <<Event("stop", t, IF s.exc = "none" THEN "ok" ELSE s.exc)>> \o s.evs
             \o Sleep("sleep_after_stop", t, config[t].sleep_after_stop)
  IN IF s.exc = "none"
     THEN [acc EXCEPT !.tasks[t] = s.r, !.trace = @ \o evs]
     ELSE IF Caught(s.exc)
     THEN [acc EXCEPT !.tasks[t] = s.r, !.trace = @ \o evs,
                      !.not_stopped_tasks = @ + 1]
     ELSE [acc EXCEPT !.tasks[t] = s.r, !.trace = @ \o evs, !.exc = s.exc]

\* stop_loop that leaves out the tasks whose runner is stopped already
RECURSIVE stop_loop_SkipsStopped(_, _)
stop_loop_SkipsStopped(order, acc) ==
  IF order = <<>> \/ acc.exc # "none" THEN {acc}
  ELSE LET t == Head(order) IN
       IF acc.tasks[t].is_stopped
       THEN stop_loop_SkipsStopped(Tail(order), acc)
       ELSE UNION { stop_loop_SkipsStopped(Tail(order), stop_task(acc, t, s))
                    : s \in Runner_stop(acc.tasks[t], t) }

RECURSIVE stop_loop(_, _)
stop_loop(order, acc) ==
  IF order = <<>> \/ acc.exc # "none" THEN {acc}
  ELSE LET t == Head(order) IN
       UNION { stop_loop(Tail(order), stop_task(acc, t, s))
               : s \in Runner_stop(acc.tasks[t], t) }

\* stop with no check of is_started
stop_NoStartedGuard ==
  IF is_stopped THEN {Unchanged("none", "already stopped")}
  ELSE { IF a.exc # "none"
         THEN Result(is_started, is_stopped, a.tasks, a.disk, a.exc,
                     "task not stopped", a.trace)
         ELSE IF a.not_stopped_tasks # 0
         THEN Result(is_started, is_stopped, a.tasks, a.disk,
                     "SrtUtilsException", "not all stopped", a.trace)
         ELSE Result(is_started, TRUE, a.tasks, a.disk, "none", "stopped", a.trace)
         : a \in stop_loop(StopOrder, NewAcc(<<>>)) }

\* stop with is_stopped set before the aggregate error is raised
stop_StoppedBeforeRaise ==
  IF ~is_started THEN {Unchanged("SrtUtilsException", "not started")}
  ELSE IF is_stopped THEN {Unchanged("none", "already stopped")}
  ELSE { IF a.exc # "none"
         THEN Result(is_started, is_stopped, a.tasks, a.disk, a.exc,
                     "task not stopped", a.trace)
         ELSE IF a.not_stopped_tasks # 0
         THEN Result(is_started, TRUE, a.tasks, a.disk,
                     "SrtUtilsException", "not all stopped", a.trace)
         ELSE Result(is_started, TRUE, a.tasks, a.disk, "none", "stopped", a.trace)
         : a \in stop_loop(StopOrder, NewAcc(<<>>)) }

\* stop that runs its loop again on a stopped experiment
stop_NoStoppedReturn ==
  IF ~is_started THEN {Unchanged("SrtUtilsException", "not started")}
  ELSE { IF a.exc # "none"
         THEN Result(is_started, is_stopped, a.tasks, a.disk, a.exc,
                     "task not stopped", a.trace)
         ELSE IF a.not_stopped_tasks # 0
         THEN Result(is_started, is_stopped, a.tasks, a.disk,
                     "SrtUtilsException", "not all stopped", a.trace)
         ELSE Result(is_started, TRUE, a.tasks, a.disk, "none", "stopped", a.trace)
         : a \in stop_loop(StopOrder, NewAcc(<<>>)) }

stop ==
  IF ~is_started THEN {Unchanged("SrtUtilsException", "not started")}
  ELSE IF is_stopped THEN {Unchanged("none", "already stopped")}
  ELSE { IF a.exc # "none"
         THEN Result(is_started, is_stopped, a.tasks, a.disk, a.exc,
                     "task not stopped", a.trace)
         ELSE IF a.not_stopped_tasks # 0
         THEN Result(is_started, is_stopped, a.tasks, a.disk,
                     "SrtUtilsException", "not all stopped", a.trace)
         ELSE Result(is_started, TRUE, a.tasks, a.disk, "none", "stopped", a.trace)
         : a \in stop_loop(StopOrder, NewAcc(<<>>)) }

\* ---- collect_results() ---------------------------------------------------
collect_task(acc, t, c) ==
  LET evs == <<Event("collect", t, IF c.exc = "none" THEN c.why ELSE c.exc)>>
  IN IF c.exc = "none" \/ Caught(c.exc)
     THEN [acc EXCEPT !.disk = c.disk, !.trace = @ \o evs]
     ELSE [acc EXCEPT !.disk = c.disk, !.trace = @ \o evs, !.exc = c.exc]

RECURSIVE collect_loop(_, _)
collect_loop(order, acc) ==
  IF order = <<>> \/ acc.exc # "none" THEN {acc}
  ELSE LET t == Head(order) IN
       UNION { collect_loop(Tail(order), collect_task(acc, t, c))
               : c \in Runner_collect_results(acc.tasks[t], config[t], t, acc.disk) }

\* collect_results with the guard on is_stopped alone
collect_results_NoStartedGuard ==
  IF ~is_stopped THEN {Unchanged("SrtUtilsException", "still running")}
  ELSE { Result(is_started, is_stopped, a.tasks, a.disk, a.exc,
                IF a.exc = "none" THEN "collected" ELSE "task not collected", a.trace)
         : a \in collect_loop(TaskOrder, NewAcc(<<>>)) }

collect_results ==
  IF ~is_started THEN {Unchanged("SrtUtilsException", "not started")}
  ELSE IF ~is_stopped THEN {Unchanged("SrtUtilsException", "still running")}
  ELSE { Result(is_started, is_stopped, a.tasks, a.disk, a.exc,
                IF a.exc = "none" THEN "collected" ELSE "task not collected", a.trace)
         : a \in collect_loop(TaskOrder, NewAcc(<<>>)) }

\* ---- clean_up() ----------------------------------------------------------
\* the second try of clean_up, after the first stop raised
clean_up_retry(acc, t, s) ==
  LET evs == <<Event("stop", t, IF s.exc = "none" THEN "ok" ELSE s.exc)>> \o s.evs
  IN IF s.exc = "none"
     THEN [acc EXCEPT !.tasks[t] = s.r, !.trace = @ \o evs]
     ELSE IF Caught(s.exc)
     THEN [acc EXCEPT !.tasks[t] = s.r, !.trace = @ \o evs,
                      !.not_stopped_tasks = @ + 1]
     ELSE [acc EXCEPT !.tasks[t] = s.r, !.trace = @ \o evs, !.exc = s.exc]

\* clean_up_task with no second try
clean_up_task_NoRetry(acc, t) ==
  IF ~get_status(acc.tasks[t])
  THEN {[acc EXCEPT !.trace = @ \o <<Event("status", t, "idle")>>]}
  ELSE LET seen == [acc EXCEPT !.trace = @ \o <<Event("status", t, "running")>>] IN
       { LET evs == <<Event("stop", t, IF s.exc = "none" THEN "ok" ELSE s.exc)>>
                    \o s.evs
             first == [seen EXCEPT !.tasks[t] = s.r, !.trace = @ \o evs]
         IN IF s.exc = "none" THEN first
            ELSE IF Caught(s.exc)
            THEN [first EXCEPT !.not_stopped_tasks = @ + 1]
            ELSE [first EXCEPT !.exc = s.exc]
         : s \in Runner_stop(acc.tasks[t], t) }

clean_up_task(acc, t) ==
  IF ~get_status(acc.tasks[t])
  THEN {[acc EXCEPT !.trace = @ \o <<Event("status", t, "idle")>>]}
  ELSE LET seen == [acc EXCEPT !.trace = @ \o <<Event("status", t, "running")>>] IN
       UNION { LET evs == <<Event("stop", t, IF s.exc = "none" THEN "ok" ELSE s.exc)>>
                          \o s.evs
                   first == [seen EXCEPT !.tasks[t] = s.r, !.trace = @ \o evs]
               IN IF s.exc = "none" THEN {first}
                  ELSE IF Caught(s.exc)
                  THEN { clean_up_retry(first, t, s2) : s2 \in Runner_stop(s.r, t) }
                  ELSE {[first EXCEPT !.exc = s.exc]}
               : s \in Runner_stop(acc.tasks[t], t) }

RECURSIVE clean_up_loop(_, _)
clean_up_loop(order, acc) ==
  IF order = <<>> \/ acc.exc # "none" THEN {acc}
  ELSE UNION { clean_up_loop(Tail(order), a) : a \in clean_up_task(acc, Head(order)) }

\* clean_up that takes the experiment for not stopped when a task is left
clean_up_ResetsStopped ==
  { IF a.exc # "none"
    THEN Result(is_started, is_stopped, a.tasks, a.disk, a.exc,
                "task not stopped", a.trace)
    ELSE IF a.not_stopped_tasks # 0
    THEN Result(is_started, FALSE, a.tasks, a.disk,
                "SrtUtilsException", "not all stopped", a.trace)
    ELSE Result(is_started, TRUE, a.tasks, a.disk, "none", "cleaned up", a.trace)
    : a \in clean_up_loop(TaskOrder, NewAcc(<<>>)) }

clean_up ==
  { IF a.exc # "none"
    THEN Result(is_started, is_stopped, a.tasks, a.disk, a.exc,
                "task not stopped", a.trace)
    ELSE IF a.not_stopped_tasks # 0
    THEN Result(is_started, is_stopped, a.tasks, a.disk,
                "SrtUtilsException", "not all stopped", a.trace)
    ELSE Result(is_started, TRUE, a.tasks, a.disk, "none", "cleaned up", a.trace)
    : a \in clean_up_loop(TaskOrder, NewAcc(<<>>)) }

(***************************************************************************)
(* objects.py: the objects to run.                                          *)
(* A string is the sequence of its pieces, " " and "srt://" being pieces of *)
(* their own; a path is the sequence of its components; a value that can    *)
(* be None is a set of at most one element.                                 *)
(***************************************************************************)
None == {}

Some(v) == {v}

Value(o) == CHOOSE v \in o : TRUE

S(piece) == <<piece>>

RECURSIVE Join(_, _)
\* sep.join(strs)
Join(strs, sep) ==
  IF strs = <<>> THEN <<>>
  ELSE IF Len(strs) = 1 THEN strs[1]
  ELSE strs[1] \o sep \o Join(Tail(strs), sep)

RECURSIVE Flatten(_)
Flatten(seqs) == IF seqs = <<>> THEN <<>> ELSE Head(seqs) \o Flatten(Tail(seqs))

Contains(str, piece) == \E i \in DOMAIN str : str[i] = piece

StartsWith(str, piece) == str # <<>> /\ str[1] = piece

Quote(str) == <<"\"">> \o str \o <<"\"">>

RECURSIVE Split(_, _, _)
\* str.split(sep): cur is the part read since the last sep
Split(str, sep, cur) ==
  IF str = <<>> THEN <<cur>>
  ELSE IF Head(str) = sep THEN <<cur>> \o Split(Tail(str), sep, <<>>)
  ELSE Split(Tail(str), sep, Append(cur, Head(str)))

\* pathlib: Path(dir) / name, its parent and str() of it
Path(dir) == <<dir>>

Child(path, name) == Append(path, name)

Parent(path) == SubSeq(path, 1, Len(path) - 1)

PathStr(path) == Join(path, S("/"))

\* the configurations of an object that are checked; a field that the
\* object's class does not read is None
NoConfig ==
  [obj_type |-> "none", type |-> "none", path |-> <<>>, port |-> <<>>,
   host |-> <<>>, interface |-> <<>>, attrs_values |-> None,
   options_values |-> None, statsdir |-> None, statsfreq |-> None,
   dirpath |-> None, prefix |-> None, rules |-> <<>>]

Paths == {S("srt-xtransmit"), <<"my", " ", "bin/srt-xtransmit">>}

AttrsValues ==
  {None, Some(<<>>), Some(<< <<S("rcvbuf"), S("1000000000")>> >>),
   Some(<< <<S("a"), S("1")>>, <<S("b"), S("2")>> >>)}

OptionsValues ==
  {None, Some(<< <<S("--msgsize"), S("1316")>> >>),
   Some(<< <<S("--msgsize"), S("1316")>>, <<S("--sendrate"), S("15Mbps")>> >>)}

Prefixes == {None, Some(S("1"))}

SrtXtransmitConfigs ==
  { [NoConfig EXCEPT !.obj_type = "srt-xtransmit", !.type = ty, !.path = pa,
                     !.port = S("4200"), !.host = ho, !.attrs_values = av,
                     !.options_values = ov, !.statsdir = sd, !.statsfreq = sf,
                     !.prefix = pr]
    : ty \in {"snd", "rcv", "fwd"}, pa \in Paths, ho \in {<<>>, S("10.0.0.1")},
      av \in AttrsValues, ov \in OptionsValues,
      sd \in {None, Some(S("_results"))},
      sf \in {None, Some(<<>>), Some(S("100"))}, pr \in Prefixes }

TsharkConfigs ==
  { [NoConfig EXCEPT !.obj_type = "tshark", !.path = S("tshark"),
                     !.interface = S("en0"), !.port = S("4200"),
                     !.dirpath = Some(S("_results")), !.prefix = pr]
    : pr \in Prefixes }

NetemConfigs ==
  { [NoConfig EXCEPT !.obj_type = "netem", !.interface = S("eth0"), !.rules = ru]
    : ru \in {<<>>, << <<"delay", " ", "100ms">> >>,
              << <<"delay", " ", "100ms">>, <<"loss", " ", "1%">> >>} }

\* an object type that the factory does not know
UnknownConfigs == {[NoConfig EXCEPT !.obj_type = "srt-live-transmit"]}

ObjectConfigs ==
  SrtXtransmitConfigs \cup TsharkConfigs \cup NetemConfigs \cup UnknownConfigs

\* IObject.__init__ and what the subclasses add: attrs are the attributes
\* the constructor stores as they are given
IObject(class, name, cfg) ==
  [class |-> class, name |-> name, attrs |-> cfg, dirpath |-> None,
   filepath |-> None]

\* Tshark.__init__
Tshark(cfg) ==
  LET self == IObject("Tshark", S("tshark"), cfg)
      filename == (IF cfg.prefix # None
                   THEN Value(cfg.prefix) \o S("-") \o self.name \o S("-tracefile")
                   ELSE self.name \o S("-tracefile")) \o S(".pcapng")
      dirpath == Path(Value(cfg.dirpath))
  IN [self EXCEPT !.dirpath = Some(dirpath),
                  !.filepath = Some(Child(dirpath, filename))]

\* SrtXtransmit.__init__ that sets filepath whether or not statsdir is given
SrtXtransmit_FilepathAlways(cfg) ==
  LET self == IObject("SrtXtransmit", S("srt-xtransmit"), cfg)
      filename == self.name \o S("-stats-") \o S(cfg.type) \o S(".csv")
  IN IF cfg.statsdir # None
     THEN [self EXCEPT !.dirpath = Some(Path(Value(cfg.statsdir))),
                       !.filepath = Some(Child(Path(Value(cfg.statsdir)), filename))]
     ELSE [self EXCEPT !.filepath = Some(Child(<<>>, filename))]

\* SrtXtransmit.__init__
SrtXtransmit(cfg) ==
  LET self == IObject("SrtXtransmit", S("srt-xtransmit"), cfg)
      filename == (IF cfg.prefix # None
                   THEN Value(cfg.prefix) \o S("-") \o self.name \o S("-stats-")
                          \o S(cfg.type)
                   ELSE self.name \o S("-stats-") \o S(cfg.type)) \o S(".csv")
  IN IF cfg.statsdir # None
     THEN LET dirpath == Path(Value(cfg.statsdir))
          IN [self EXCEPT !.dirpath = Some(dirpath),
                          !.filepath = Some(Child(dirpath, filename))]
     ELSE self

\* Netem.__init__
Netem(cfg) == IObject("Netem", S("netem"), cfg)

RECURSIVE get_query_elements(_)
get_query_elements(attrs_values) ==
  IF attrs_values = <<>> THEN <<>>
  ELSE << attrs_values[1][1] \o S("=") \o attrs_values[1][2] >>
       \o get_query_elements(Tail(attrs_values))

get_query(attrs_values) == Join(get_query_elements(attrs_values), S("&"))

Tshark_make_args(self) ==
  << self.attrs.path,
     S("-i"), self.attrs.interface,
     S("-f"), <<"udp", " ", "port", " ">> \o self.attrs.port,
     S("-s"), S("1500"),
     S("-w"), PathStr(Value(self.filepath)) >>

\* `if self.statsfreq:` is false for None and for ''
Truthy(o) == o # None /\ Value(o) # <<>>

\* make_args with the options after the statistics arguments
SrtXtransmit_make_args_OptionsLast(self) ==
  LET a == self.attrs IN
  <<a.path>>
  \o (IF a.type = "snd" THEN <<S("generate")>> ELSE <<>>)
  \o (IF a.type = "rcv" THEN <<S("receive")>> ELSE <<>>)
  \o (IF a.attrs_values # None
      THEN << S("srt://") \o a.host \o S(":") \o a.port \o S("?")
                \o get_query(Value(a.attrs_values)) >>
      ELSE << S("srt://") \o a.host \o S(":") \o a.port >>)
  \o (IF self.dirpath # None
      THEN <<S("--statsfile"), PathStr(Value(self.filepath))>>
           \o (IF Truthy(a.statsfreq)
               THEN <<S("--statsfreq"), Value(a.statsfreq)>> ELSE <<>>)
      ELSE <<>>)
  \o (IF a.options_values # None THEN Flatten(Value(a.options_values)) ELSE <<>>)

SrtXtransmit_make_args(self) ==
  LET a == self.attrs IN
  <<a.path>>
  \o (IF a.type = "snd" THEN <<S("generate")>> ELSE <<>>)
  \o (IF a.type = "rcv" THEN <<S("receive")>> ELSE <<>>)
  \o (IF a.attrs_values # None
      THEN << S("srt://") \o a.host \o S(":") \o a.port \o S("?")
                \o get_query(Value(a.attrs_values)) >>
      ELSE << S("srt://") \o a.host \o S(":") \o a.port >>)
  \o (IF a.options_values # None THEN Flatten(Value(a.options_values)) ELSE <<>>)
  \o (IF self.dirpath # None
      THEN <<S("--statsfile"), PathStr(Value(self.filepath))>>
           \o (IF Truthy(a.statsfreq)
               THEN <<S("--statsfreq"), Value(a.statsfreq)>> ELSE <<>>)
      ELSE <<>>)

RECURSIVE Netem_rules(_)
Netem_rules(rules) ==
  IF rules = <<>> THEN <<>>
  ELSE Split(Head(rules), " ", <<>>) \o Netem_rules(Tail(rules))

Netem_make_args(self) ==
  <<S("sudo"), S("tc"), S("qdisc"), S("add"), S("dev"), self.attrs.interface,
    S("root"), S("netem")>>
  \o Netem_rules(self.attrs.rules)

make_args(self) ==
  IF self.class = "Tshark" THEN Tshark_make_args(self)
  ELSE IF self.class = "SrtXtransmit" THEN SrtXtransmit_make_args(self)
  ELSE Netem_make_args(self)

\* Tshark quotes an argument with ' ' in it, SrtXtransmit one that starts
\* with 'srt://', Netem none
make_str(self) ==
  LET args == make_args(self)
      quoted == [i \in DOMAIN args |->
                  IF self.class = "Tshark"
                  THEN IF Contains(args[i], " ") THEN Quote(args[i]) ELSE args[i]
                  ELSE IF self.class = "SrtXtransmit"
                  THEN IF StartsWith(args[i], "srt://") THEN Quote(args[i]) ELSE args[i]
                  ELSE args[i]]
  IN Join(quoted, S(" "))

(***************************************************************************)
(* runners.py: SimpleFactory                                                *)
(***************************************************************************)
create_object(obj_type, obj_config) ==
  IF obj_type = "tshark" THEN Some(Tshark(obj_config))
  ELSE IF obj_type = "srt-xtransmit" THEN Some(SrtXtransmit(obj_config))
  ELSE IF obj_type = "netem" THEN Some(Netem(obj_config))
  ELSE None

RunnerTypes == {"local-runner", "remote-runner", "subprocess"}

\* a factory that makes the remote runner for every type it knows
create_runner_AlwaysRemote(object, runner_type) ==
  IF runner_type \in {"local-runner", "remote-runner"}
  THEN Some([class |-> "RemoteProcess", obj |-> object])
  ELSE None

\* object_runners.LocalRunner and RemoteRunner are the LocalProcess and
\* RemoteProcess of object_runners.py
create_runner(object, runner_type) ==
  IF runner_type = "local-runner"
  THEN Some([class |-> "LocalProcess", obj |-> object])
  ELSE IF runner_type = "remote-runner"
  THEN Some([class |-> "RemoteProcess", obj |-> object])
  ELSE None

(***************************************************************************)
(* The state machine                                                       *)
(***************************************************************************)
\* the orchestrator, its runners and the disk as a call finds them
Snapshot ==
  [is_started |-> is_started, is_stopped |-> is_stopped, tasks |-> tasks,
   disk |-> disk, running |-> {t \in Tasks : get_status(tasks[t])}]

\* no run script: the methods are called as the caller likes
NoScript ==
  [pc |-> "none", exp_runner |-> TRUE, raised |-> "none", logged |-> FALSE,
   cleaned |-> FALSE, error |-> "none"]

\* the orchestrators of the other specifications are taken as built, with
\* the runners that their configuration names
NoBuild ==
  [pc |-> "none", exc |-> "none", key |-> <<>>, collect_results_path |-> <<>>,
   obj |-> <<>>, obj_runner |-> <<>>]

\* no object looked at
NoObject ==
  [config |-> NoConfig, call |-> "none", object |-> None, args |-> <<>>,
   str |-> <<>>, runner |-> None]

Init ==
  /\ script = NoScript
  /\ obj = NoObject
  /\ built = NoBuild
  /\ config \in ExperimentConfigs
  /\ ignore_stop_order \in BOOLEAN
  /\ is_started = FALSE
  /\ is_stopped = FALSE
  /\ tasks = [t \in Tasks |-> NewRunner]
  /\ disk \in [collect_dir : BOOLEAN, output : {{}}, collected : {{}}]
  /\ op = "none"
  /\ outcome = [exc |-> "none", why |-> "none"]
  /\ trace = <<>>
  /\ pre = Snapshot

Call(name, results) ==
  \E r \in results :
    /\ is_started' = r.is_started
    /\ is_stopped' = r.is_stopped
    /\ tasks' = r.tasks
    /\ disk' = r.disk
    /\ op' = name
    /\ outcome' = r.outcome
    /\ trace' = r.trace
    /\ pre' = Snapshot
    /\ UNCHANGED <<config, ignore_stop_order, obj, built>>

Start == Call("start", start) /\ UNCHANGED script

Stop == Call("stop", stop) /\ UNCHANGED script

CollectResults == Call("collect_results", collect_results) /\ UNCHANGED script

CleanUp == Call("clean_up", clean_up) /\ UNCHANGED script

Environment ==
  /\ op' = "env"
  /\ outcome' = [exc |-> "none", why |-> "none"]
  /\ trace' = <<>>
  /\ pre' = Snapshot
  /\ UNCHANGED <<config, ignore_stop_order, is_started, is_stopped, script, obj, built>>

\* a child process ends by itself
ProcessExits ==
  \E t \in Tasks :
    /\ tasks[t].runner.process = "running"
    /\ tasks' = [tasks EXCEPT ![t].runner.process = "exited"]
    /\ UNCHANGED disk
    /\ Environment

\* a spawned object writes its output file
OutputWritten ==
  \E t \in Tasks :
    /\ tasks[t].runner.process # "None"
    /\ HasFilepath(config[t])
    /\ t \notin disk.output
    /\ disk' = [disk EXCEPT !.output = @ \cup {t}]
    /\ UNCHANGED tasks
    /\ Environment

Next ==
  \/ Start
  \/ Stop
  \/ CollectResults
  \/ CleanUp
  \/ ProcessExits
  \/ OutputWritten

Spec == Init /\ [][Next]_vars

(***************************************************************************)
(* The runners called directly, as test_object_runners.py calls them: any   *)
(* method of the runner of any task, in any order.                          *)
(***************************************************************************)
RunnerCall(name, t, r, d, exc, why, evs) ==
  /\ tasks' = [tasks EXCEPT ![t] = r]
  /\ disk' = d
  /\ op' = name
  /\ outcome' = [exc |-> exc, why |-> why]
  /\ trace' = IF exc = "none" THEN evs ELSE Append(evs, Event("raise", 0, exc))
  /\ pre' = Snapshot
  /\ UNCHANGED <<config, ignore_stop_order, is_started, is_stopped, script, obj, built>>

RunnerStart ==
  \E t \in Tasks : \E s \in Runner_start(tasks[t], config[t], t) :
    RunnerCall("runner.start", t, s.r, disk, s.exc,
               IF s.exc = "none" THEN "started" ELSE "not started",
               <<Event("start", t, IF s.exc = "none" THEN "ok" ELSE s.exc)>> \o s.evs)

RunnerStop ==
  \E t \in Tasks : \E s \in Runner_stop(tasks[t], t) :
    RunnerCall("runner.stop", t, s.r, disk, s.exc,
               IF s.exc = "none" THEN "stopped" ELSE "not stopped",
               <<Event("stop", t, IF s.exc = "none" THEN "ok" ELSE s.exc)>> \o s.evs)

RunnerCollectResults ==
  \E t \in Tasks : \E c \in Runner_collect_results(tasks[t], config[t], t, disk) :
    RunnerCall("runner.collect_results", t, tasks[t], c.disk, c.exc, c.why,
               <<Event("collect", t, IF c.exc = "none" THEN c.why ELSE c.exc)>>)

RunnerNext ==
  \/ RunnerStart
  \/ RunnerStop
  \/ RunnerCollectResults
  \/ ProcessExits
  \/ OutputWritten

RunnerSpec == Init /\ [][RunnerNext]_vars

(***************************************************************************)
(* The process wrappers called directly: any method of the Process of any   *)
(* task, in any order.  The Process of task t is tasks[t].runner; the flags *)
(* of the runner around it are left alone.                                  *)
(***************************************************************************)
ProcessCall(name, t, p, exc, why, evs) ==
  RunnerCall(name, t, [tasks[t] EXCEPT !.runner = p], disk, exc, why, evs)

ProcessStart ==
  \E t \in Tasks : \E s \in Process_start(tasks[t].runner, config[t], t) :
    ProcessCall("process.start", t, s.p, s.exc,
                IF s.exc = "none" THEN "started" ELSE "not started",
                <<Event("start", t, IF s.exc = "none" THEN "ok" ELSE s.exc)>> \o s.evs)

ProcessStop ==
  \E t \in Tasks : \E s \in Process_stop_on(tasks[t].runner, t, AllResponses) :
    ProcessCall("process.stop", t, s.p, s.exc,
                IF s.exc = "none" THEN "stopped" ELSE "not stopped",
                <<Event("stop", t, IF s.exc = "none" THEN "ok" ELSE s.exc)>> \o s.evs)

\* a read of the status property: no exception, why is the status and the
\* event holds the returncode
ProcessStatus ==
  \E t \in Tasks : \E status \in {Process_status(tasks[t].runner)} :
    ProcessCall("process.status", t, tasks[t].runner, "none", status,
                <<Event("status", t, Process_returncode(tasks[t].runner))>>)

ProcessCollectResults ==
  \E t \in Tasks : \E exc \in {Process_collect_results(tasks[t].runner)} :
    ProcessCall("process.collect_results", t, tasks[t].runner, exc,
                IF exc = "none" THEN "read" ELSE "not started",
                <<Event("collect", t, IF exc = "none" THEN "read" ELSE exc)>>)

ProcessNext ==
  \/ ProcessStart
  \/ ProcessStop
  \/ ProcessStatus
  \/ ProcessCollectResults
  \/ ProcessExits

ProcessSpec == Init /\ [][ProcessNext]_vars

(***************************************************************************)
(* scripts/run_experiment.py main (srt_utils/script.py main and             *)
(* scripts/run_single_experiment.py main are the same):                     *)
(*   try:     exp_runner = SingleExperimentRunner.from_config(config)       *)
(*            exp_runner.start(); time.sleep(stop_after)                    *)
(*            exp_runner.stop(); exp_runner.collect_results()               *)
(*   except SrtUtilsException as error: logger.error(...)                   *)
(*   finally: exp_runner.clean_up()                                         *)
(* script = [pc, exp_runner, raised, logged, cleaned, error]:               *)
(*   exp_runner  the name exp_runner is bound                               *)
(*   raised      the exception that left the try block, "none" if none      *)
(*   logged      the handler logged it                                      *)
(*   cleaned     clean_up() was called                                      *)
(*   error       the exception main ends with, "none" if none               *)
(***************************************************************************)
orchestrator ==
  <<config, ignore_stop_order, is_started, is_stopped, tasks, disk, op, outcome, trace, pre, obj,
    built>>

\* from_config reads config['collect_results_path'], ['ignore_stop_order'],
\* ['stop_after'], ['tasks'] and, in __init__, the keys of every task: a
\* config file that lacks one of them makes it raise KeyError
FromConfigResults == {"ok", "KeyError"}

ScriptInit ==
  /\ script = [NoScript EXCEPT !.pc = "from_config", !.exp_runner = FALSE]
  /\ obj = NoObject
  /\ built = NoBuild
  /\ config \in ExperimentConfigs
  /\ ignore_stop_order \in BOOLEAN
  /\ is_started = FALSE
  /\ is_stopped = FALSE
  /\ tasks = [t \in Tasks |-> NewRunner]
  /\ disk \in [collect_dir : BOOLEAN, output : {{}}, collected : {{}}]
  /\ op = "none"
  /\ outcome = [exc |-> "none", why |-> "none"]
  /\ trace = <<>>
  /\ pre = Snapshot

\* a statement of the try block has run: on to the next one, or to the
\* handlers with the exception it raised
Try(next, exc) ==
  IF exc = "none" THEN [script EXCEPT !.pc = next]
  ELSE [script EXCEPT !.pc = "except", !.raised = exc]

ScriptFromConfig ==
  /\ script.pc = "from_config"
  /\ \E res \in FromConfigResults :
       script' = IF res = "ok"
                 THEN [script EXCEPT !.pc = "start", !.exp_runner = TRUE]
                 ELSE Try("start", res)
  /\ UNCHANGED orchestrator

ScriptStart ==
  /\ script.pc = "start"
  /\ Call("start", start)
  /\ script' = Try("sleep", outcome'.exc)

\* time.sleep(config['stop_after'])
ScriptSleep ==
  /\ script.pc = "sleep"
  /\ script' = Try("stop", "none")
  /\ UNCHANGED orchestrator

ScriptStop ==
  /\ script.pc = "stop"
  /\ Call("stop", stop)
  /\ script' = Try("collect_results", outcome'.exc)

ScriptCollectResults ==
  /\ script.pc = "collect_results"
  /\ Call("collect_results", collect_results)
  /\ script' = Try("finally", outcome'.exc)

\* except SrtUtilsException: logger.error(...); any other exception is left
\* to go on after the finally block
ScriptExcept ==
  /\ script.pc = "except"
  /\ script' = IF Caught(script.raised)
                THEN [script EXCEPT !.pc = "finally", !.logged = TRUE]
                ELSE [script EXCEPT !.pc = "finally", !.error = script.raised]
  /\ UNCHANGED orchestrator

\* finally: exp_runner.clean_up(), the name exp_runner being unbound when
\* from_config raised
ScriptFinally ==
  /\ script.pc = "finally"
  /\ IF ~script.exp_runner
     THEN /\ script' = [script EXCEPT !.pc = "exit", !.error = "UnboundLocalError"]
          /\ UNCHANGED orchestrator
     ELSE /\ Call("clean_up", clean_up)
          /\ script' = [script EXCEPT !.pc = "exit", !.cleaned = TRUE,
                                      !.error = IF outcome'.exc # "none"
                                                THEN outcome'.exc ELSE @]

ScriptNext ==
  \/ ScriptFromConfig
  \/ ScriptStart
  \/ ScriptSleep
  \/ ScriptStop
  \/ ScriptCollectResults
  \/ ScriptExcept
  \/ ScriptFinally
  \/ ProcessExits
  \/ OutputWritten

ScriptSpec == ScriptInit /\ [][ScriptNext]_vars

(***************************************************************************)
(* The objects and the factory called directly, as test_objects.py and      *)
(* test_object_runners.py call them: an object is made of a configuration,  *)
(* then its methods are called in any order.                                *)
(***************************************************************************)
ObjectInit ==
  /\ obj \in {[NoObject EXCEPT !.config = c] : c \in ObjectConfigs}
  /\ built = NoBuild
  /\ script = NoScript
  /\ config = [t \in Tasks |-> TaskConfigs[1]]
  /\ ignore_stop_order = FALSE
  /\ is_started = FALSE
  /\ is_stopped = FALSE
  /\ tasks = [t \in Tasks |-> NewRunner]
  /\ disk = [collect_dir |-> FALSE, output |-> {}, collected |-> {}]
  /\ op = "none"
  /\ outcome = [exc |-> "none", why |-> "none"]
  /\ trace = <<>>
  /\ pre = Snapshot

CreateObject ==
  /\ obj.object = None
  /\ obj' = [obj EXCEPT !.call = "create_object",
                        !.object = create_object(obj.config.obj_type, obj.config)]
  /\ UNCHANGED <<config, ignore_stop_order, is_started, is_stopped, tasks, disk,
                 op, outcome, trace, pre, script, built>>

MakeArgs ==
  /\ obj.object # None
  /\ obj' = [obj EXCEPT !.call = "make_args",
                        !.args = make_args(Value(obj.object))]
  /\ UNCHANGED <<config, ignore_stop_order, is_started, is_stopped, tasks, disk,
                 op, outcome, trace, pre, script, built>>

MakeStr ==
  /\ obj.object # None
  /\ obj' = [obj EXCEPT !.call = "make_str",
                        !.str = make_str(Value(obj.object))]
  /\ UNCHANGED <<config, ignore_stop_order, is_started, is_stopped, tasks, disk,
                 op, outcome, trace, pre, script, built>>

CreateRunner ==
  /\ obj.object # None
  /\ \E runner_type \in RunnerTypes :
       obj' = [obj EXCEPT !.call = runner_type,
                          !.runner = create_runner(Value(obj.object), runner_type)]
  /\ UNCHANGED <<config, ignore_stop_order, is_started, is_stopped, tasks, disk,
                 op, outcome, trace, pre, script, built>>

ObjectNext ==
  \/ CreateObject
  \/ MakeArgs
  \/ MakeStr
  \/ CreateRunner

ObjectSpec == ObjectInit /\ [][ObjectNext]_vars

(***************************************************************************)
(* runners.py: SingleExperimentRunner.__init__ on configurations that may   *)
(* name an object type or a runner type the factory does not know, and      *)
(* start() on what it built.                                                *)
(* built = [pc, exc, key, collect_results_path, obj, obj_runner]:           *)
(*   pc          "config" before __init__, "built" when it returned,        *)
(*               "failed" when it raised exc                                *)
(*   key         the keys of config['tasks'], in their order                *)
(*   obj, obj_runner   task.obj and task.obj_runner of every task           *)
(***************************************************************************)
\* task configurations with a type that SimpleFactory has no branch for;
\* 'subprocess' is the runner type of the example in Task.__init__
UnknownTaskConfigs ==
  { [obj_type |-> "srt-live-transmit", runner_type |-> "local-runner",
     statsdir |-> FALSE, sleep_after_start |-> FALSE, sleep_after_stop |-> FALSE],
    [obj_type |-> "tshark", runner_type |-> "subprocess",
     statsdir |-> FALSE, sleep_after_start |-> FALSE, sleep_after_stop |-> FALSE],
    [obj_type |-> "srt-live-transmit", runner_type |-> "subprocess",
     statsdir |-> FALSE, sleep_after_start |-> FALSE, sleep_after_stop |-> FALSE] }

BuildConfigs ==
  [Tasks -> {TaskConfigs[i] : i \in DOMAIN TaskConfigs} \cup UnknownTaskConfigs]

\* the keys of a dict differ from one another
TaskKeys ==
  { [t \in Tasks |-> S(ToString(((t + k) % NumTasks) + 1))] : k \in 0..(NumTasks - 1) }

\* config['obj_config'] of a task, as the configuration file gives it: every
\* task has the same prefix in it
obj_config(cfg) ==
  IF cfg.obj_type = "tshark"
  THEN [NoConfig EXCEPT !.obj_type = "tshark", !.path = S("tshark"),
                        !.interface = S("en0"), !.port = S("4200"),
                        !.dirpath = Some(S("_results")), !.prefix = Some(S("exp"))]
  ELSE IF cfg.obj_type = "srt-xtransmit"
  THEN [NoConfig EXCEPT !.obj_type = "srt-xtransmit", !.type = "snd",
                        !.path = S("srt-xtransmit"), !.port = S("4200"),
                        !.statsdir = IF cfg.statsdir THEN Some(S("_results")) ELSE None,
                        !.prefix = Some(S("exp"))]
  ELSE IF cfg.obj_type = "netem"
  THEN [NoConfig EXCEPT !.obj_type = "netem", !.interface = S("eth0")]
  ELSE [NoConfig EXCEPT !.obj_type = cfg.obj_type]

\* LocalProcess.from_config and RemoteProcess.from_config with __init__: the
\* runner holds the object and the collect_results_path of its config, '.'
\* when the config has none; __init__ calls make_args() of the object
Runner_from_config(class, object, runner_config) ==
  IF object = None
  THEN [exc |-> "AttributeError", runner |-> None]
  ELSE [exc |-> "none",
        runner |-> Some([class |-> class, obj |-> Value(object),
                         collect_results_path |->
                           IF runner_config.collect_results_path # None
                           THEN Path(Value(runner_config.collect_results_path))
                           ELSE Path(S("."))])]

\* one turn of the loop of __init__ with no prefix put into obj_config
Task_from_config_NoPrefix(collect_results_path, key, cfg) ==
  LET runner_config == [collect_results_path |-> Some(collect_results_path)]
      object == create_object(cfg.obj_type, obj_config(cfg))
      made == create_runner(object, cfg.runner_type)
  IN IF made = None
     THEN [exc |-> "none", obj |-> object, obj_runner |-> None]
     ELSE LET r == Runner_from_config(Value(made).class, object, runner_config)
          IN [exc |-> r.exc, obj |-> object, obj_runner |-> r.runner]

\* one turn of the loop of __init__: the key goes into obj_config as the
\* prefix, the collect_results_path of the experiment into runner_config,
\* then the factory makes the object and the runner of the task
Task_from_config(collect_results_path, key, cfg) ==
  LET oc == [obj_config(cfg) EXCEPT !.prefix = Some(key)]
      runner_config == [collect_results_path |-> Some(collect_results_path)]
      object == create_object(cfg.obj_type, oc)
      made == create_runner(object, cfg.runner_type)
  IN IF made = None
     THEN [exc |-> "none", obj |-> object, obj_runner |-> None]
     ELSE LET r == Runner_from_config(Value(made).class, object, runner_config)
          IN [exc |-> r.exc, obj |-> object, obj_runner |-> r.runner]

\* SingleExperimentRunner.__init__: an exception of a turn of the loop
\* leaves it, and no orchestrator is made
SingleExperimentRunner(b, cfgs) ==
  LET made == [t \in Tasks |-> Task_from_config(b.collect_results_path, b.key[t], cfgs[t])]
      failed == {t \in Tasks : made[t].exc # "none"}
  IN IF failed # {}
     THEN [b EXCEPT !.pc = "failed",
                    !.exc = made[CHOOSE t \in failed : \A u \in failed : t <= u].exc]
     ELSE [b EXCEPT !.pc = "built",
                    !.obj = [t \in Tasks |-> made[t].obj],
                    !.obj_runner = [t \in Tasks |-> made[t].obj_runner]]

BuildInit ==
  /\ built \in { [NoBuild EXCEPT !.pc = "config", !.key = k,
                                 !.collect_results_path = S("_results_exp")]
                 : k \in TaskKeys }
  /\ config \in BuildConfigs
  /\ script = NoScript
  /\ obj = NoObject
  /\ ignore_stop_order = FALSE
  /\ is_started = FALSE
  /\ is_stopped = FALSE
  /\ tasks = [t \in Tasks |-> NewRunner]
  /\ disk = [collect_dir |-> FALSE, output |-> {}, collected |-> {}]
  /\ op = "none"
  /\ outcome = [exc |-> "none", why |-> "none"]
  /\ trace = <<>>
  /\ pre = Snapshot

\* SingleExperimentRunner.from_config(config)
FromConfig ==
  /\ built.pc = "config"
  /\ built' = SingleExperimentRunner(built, config)
  /\ UNCHANGED <<config, ignore_stop_order, is_started, is_stopped, tasks, disk,
                 op, outcome, trace, pre, script, obj>>

\* start() of the orchestrator that from_config returned
BuiltStart ==
  /\ built.pc = "built"
  /\ Call("start", start)
  /\ UNCHANGED script

BuildNext ==
  \/ FromConfig
  \/ BuiltStart

BuildSpec == BuildInit /\ [][BuildNext]_vars

(***************************************************************************)
(* Reading the trace of the last call                                       *)
(***************************************************************************)
\* the places of the trace where ev was done for task t
EventsOf(ev, t) == {i \in DOMAIN trace : trace[i].ev = ev /\ trace[i].task = t}

Attempted(ev) == {t \in Tasks : EventsOf(ev, t) # {}}

\* the tasks with a stop attempt that raised
FailedStops == {t \in Tasks : \E i \in EventsOf("stop", t) : trace[i].res # "ok"}

\* the tasks all of whose stop attempts raised
NeverStopped ==
  {t \in Attempted("stop") : \A i \in EventsOf("stop", t) : trace[i].res # "ok"}

FailedStarts == {t \in Tasks : \E i \in EventsOf("start", t) : trace[i].res # "ok"}

Raises == {i \in DOMAIN trace : trace[i].ev = "raise"}

\* the call raised one error, as its last act
RaisedAtEnd(exc) ==
  /\ outcome.exc = exc
  /\ Raises = {Len(trace)}

\* the runners, not the processes, were left alone
NoRunnerTouched ==
  /\ \A i \in DOMAIN trace : trace[i].ev = "raise"
  /\ \A t \in Tasks : tasks[t].is_started = pre.tasks[t].is_started
                      /\ tasks[t].is_stopped = pre.tasks[t].is_stopped
                      /\ tasks[t].runner = pre.tasks[t].runner

\* stop() went into its loop
StopRan == op = "stop" /\ pre.is_started /\ ~pre.is_stopped

(***************************************************************************)
(* Claims                                                                  *)
(***************************************************************************)

StartedRunning ==
  {t \in Tasks : /\ \E i \in EventsOf("start", t) : trace[i].res = "ok"
                 /\ \E i \in EventsOf("spawn", t) : trace[i].res = "running"}

\* C3 (as stated): when the runner start of a task fails in start(), none of
\* the tasks started earlier in that call is still running when start()
\* returns with the error.
C3_Original ==
  (op = "start" /\ FailedStarts # {}) =>
    \A t \in StartedRunning : ~get_status(tasks[t])

\* C3 (amended): when the runner start of task k fails in start(), start()
\* raises that error at once and is_started stays false; no later task is
\* started and the tasks started earlier in that call are not rolled back:
\* no stop is attempted and they are still running when start() returns.
C3_StartFailsWithoutRollback ==
  (op = "start" /\ FailedStarts # {}) =>
    /\ outcome.exc # "none"
    /\ ~is_started
    /\ \A k \in FailedStarts : \A t \in Tasks : t > k => EventsOf("start", t) = {}
    /\ \A t \in Tasks : /\ EventsOf("stop", t) = {}
                        /\ EventsOf("SIGINT", t) = {}
                        /\ EventsOf("kill", t) = {}
    /\ \A t \in StartedRunning : /\ get_status(tasks[t])
                                 /\ ~tasks[t].is_stopped

\* C3 witness: start() failed at the second task and the first task is
\* running.
C3_Witness ==
  /\ op = "start"
  /\ 2 \in FailedStarts
  /\ 1 \in StartedRunning
  /\ get_status(tasks[1])
  /\ ~is_started

\* C4: start() on an orchestrator whose collection path exists raises before
\* any runner is touched (no runner start, no spawn, no sleep), and
\* is_started remains false.
C4_NoDirectoryClobber ==
  (op = "start" /\ ~pre.is_started /\ pre.disk.collect_dir) =>
    /\ outcome = [exc |-> "SrtUtilsException", why |-> "directory exists"]
    /\ NoRunnerTouched
    /\ disk = pre.disk
    /\ ~is_started

\* C4 witness: start() was called with the directory there and refused.
C4_Witness ==
  /\ op = "start"
  /\ ~pre.is_started
  /\ pre.disk.collect_dir
  /\ outcome.why = "directory exists"

\* the first stop attempt on task t
FirstStop(t) == CHOOSE i \in EventsOf("stop", t) : \A j \in EventsOf("stop", t) : i <= j

C6_CollectGuards ==
  (op = "collect_results" /\ (~pre.is_started \/ ~pre.is_stopped)) =>
    /\ RaisedAtEnd("SrtUtilsException")
    /\ Attempted("collect") = {}
    /\ NoRunnerTouched
    /\ disk = pre.disk

\* C6 witness: collect_results() refused on an orchestrator that is not
\* started although is_stopped is true.
C6_Witness ==
  /\ op = "collect_results"
  /\ ~pre.is_started
  /\ pre.is_stopped
  /\ outcome.why = "not started"

\* C7: collect_results() on a started and stopped experiment invokes runner
\* collect_results on every task; the failure of one task's collection never
\* aborts the loop.
C7_CollectVisitsEveryTask ==
  (op = "collect_results" /\ pre.is_started /\ pre.is_stopped) =>
    Attempted("collect") = Tasks

C9_FlagsMonotonic ==
  [][(is_started => is_started') /\ (is_stopped => is_stopped')]_vars

\* C9 witness: a call that raised on an orchestrator that was started and
\* stopped, both flags still true.
C9_Witness ==
  /\ op \in {"start", "stop", "collect_results", "clean_up"}
  /\ outcome.exc # "none"
  /\ pre.is_started /\ pre.is_stopped
  /\ is_started /\ is_stopped

\* C10: in every reachable state is_stopped = true implies is_started = true
\* (Stopped is never entered from Created).
C10_StoppedImpliesStarted ==
  is_stopped => is_started

\* the places of the trace that belong to task t
PlacesOf(t) == {i \in DOMAIN trace : trace[i].task = t}

\* C11: start() starts the tasks strictly in declaration order: the runner
\* start of task j is issued once, only after the runner start of every task
\* i < j returned successfully and, when task i has sleep_after_start, after
\* that sleep; the operations of two tasks are never interleaved.
C11_StartInDeclarationOrder ==
  op = "start" =>
    \A j \in Attempted("start") :
      /\ Cardinality(EventsOf("start", j)) = 1
      /\ \A i \in Tasks : i < j =>
           /\ \E a \in EventsOf("start", i) : trace[a].res = "ok"
           /\ config[i].sleep_after_start =>
                \E a \in EventsOf("sleep_after_start", i) :
                  \A b \in EventsOf("start", j) : a < b
           /\ \A a \in PlacesOf(i) : \A b \in PlacesOf(j) : a < b

\* C11 witness: start() started both tasks, the first of them with a sleep
\* after its start, and that sleep is in the trace before the second start.
C11_Witness ==
  /\ op = "start"
  /\ outcome.exc = "none"
  /\ config[1].sleep_after_start
  /\ \E a \in EventsOf("sleep_after_start", 1) :
       \E b \in EventsOf("start", 2) : a < b

\* C12: in every reachable state, is_started of the orchestrator implies
\* is_started of the runner of every task.
C12_StartedOnlyIfAllStarted ==
  is_started => \A t \in Tasks : tasks[t].is_started

\* C12 witness: start() returned, is_started is true and every runner is
\* started.
C12_Witness ==
  /\ op = "start"
  /\ outcome.exc = "none"
  /\ is_started
  /\ \A t \in Tasks : tasks[t].is_started

\* C13: start() on a started orchestrator raises and has no effect: no
\* directory is made, no runner start is invoked, the flags are as before.
C13_StartRejectedWhenStarted ==
  (op = "start" /\ pre.is_started) =>
    /\ outcome = [exc |-> "SrtUtilsException", why |-> "already started"]
    /\ RaisedAtEnd("SrtUtilsException")
    /\ Attempted("mkdir") = {} /\ EventsOf("mkdir", 0) = {}
    /\ Attempted("start") = {}
    /\ NoRunnerTouched
    /\ disk = pre.disk
    /\ is_started = pre.is_started /\ is_stopped = pre.is_stopped

\* C13 witness: start() refused on a started orchestrator.
C13_Witness ==
  /\ op = "start"
  /\ pre.is_started
  /\ outcome.why = "already started"

\* C14: stop() raises when the experiment is not started, and returns at
\* once when it is started and stopped already: in both cases no runner stop
\* is invoked, no sleep_after_stop is slept and the flags are as before.
C14_StopGuards ==
  (op = "stop" /\ (~pre.is_started \/ pre.is_stopped)) =>
    /\ ~pre.is_started => outcome = [exc |-> "SrtUtilsException", why |-> "not started"]
    /\ pre.is_started => outcome = [exc |-> "none", why |-> "already stopped"]
    /\ Attempted("stop") = {}
    /\ Attempted("sleep_after_stop") = {}
    /\ NoRunnerTouched
    /\ disk = pre.disk
    /\ is_started = pre.is_started /\ is_stopped = pre.is_stopped

\* C14 witness: stop() on a started and stopped experiment whose first task
\* has a sleep after stop returned without an error.
C14_Witness ==
  /\ op = "stop"
  /\ pre.is_started /\ pre.is_stopped
  /\ config[1].sleep_after_stop
  /\ outcome = [exc |-> "none", why |-> "already stopped"]

\* C15: in every execution of the run script, whichever step of it raised,
\* the error was logged and clean_up() was called on the orchestrator before
\* the script ended.
C15_ScriptLogsAndCleansUp ==
  script.pc = "exit" =>
    /\ script.raised # "none" => script.logged
    /\ script.cleaned

\* C16: processes are not orphaned: in every reachable state in which
\* is_stopped of the orchestrator is true, and so whenever clean_up() has
\* returned without an error, no task's process is running.
C16_NoOrphans ==
  is_stopped => \A t \in Tasks : tasks[t].runner.process # "running"

(***************************************************************************)
(* Claims about one runner, called directly                                 *)
(***************************************************************************)
\* the task whose runner the last call was made on
Target == trace[1].task

RunnerOp(name) == op = name /\ trace # <<>>

Signals(t) == EventsOf("SIGINT", t) \cup EventsOf("kill", t)

\* C17: stop() of a runner, local or remote, that was started and then
\* stopped is a no-op: it does not raise, sends no SIGINT and no kill, and
\* leaves every flag as it was.
C17_SecondStopIsNoOp ==
  (/\ RunnerOp("runner.stop")
   /\ pre.tasks[Target].is_started
   /\ pre.tasks[Target].is_stopped) =>
    /\ outcome.exc = "none"
    /\ Signals(Target) = {}
    /\ tasks = pre.tasks

\* C17 witness: a second stop() of a remote runner returned.
C17_Witness ==
  /\ RunnerOp("runner.stop")
  /\ config[Target].runner_type = "remote-runner"
  /\ pre.tasks[Target].is_started
  /\ pre.tasks[Target].is_stopped
  /\ outcome.exc = "none"

\* C18: stop() of a started runner whose process has exited by itself sends
\* no SIGINT and no kill and does not raise; it returns with is_stopped true
\* in the runner and in its Process.
C18_StopOfExitedProcess ==
  (/\ RunnerOp("runner.stop")
   /\ pre.tasks[Target].is_started
   /\ ~pre.tasks[Target].is_stopped
   /\ pre.tasks[Target].runner.process = "exited") =>
    /\ outcome.exc = "none"
    /\ Signals(Target) = {}
    /\ tasks[Target].is_stopped
    /\ tasks[Target].runner.is_stopped

\* C18 witness: stop() of a started, not stopped runner whose process had
\* exited returned with the runner stopped.
C18_Witness ==
  /\ RunnerOp("runner.stop")
  /\ pre.tasks[Target].is_started
  /\ ~pre.tasks[Target].is_stopped
  /\ pre.tasks[Target].runner.process = "exited"
  /\ tasks[Target].is_stopped

\* Process.start raised in the last call: Popen raised, or the child had
\* exited when the grace period ended and the arguments do not hold 'netem'
ProcessStartFailed ==
  \E i \in EventsOf("spawn", Target) :
    \/ trace[i].res = "OSError"
    \/ trace[i].res = "exited" /\ ~ArgsContainNetem(config[Target])

C20_RunnerCollectGuards ==
  (/\ RunnerOp("runner.collect_results")
   /\ ~pre.tasks[Target].is_started \/ ~pre.tasks[Target].is_stopped) =>
    /\ outcome.exc # "none"
    /\ disk = pre.disk

\* where collect_results of the runner of task t puts the file
Destination(t) ==
  IF config[t].runner_type = "local-runner"
  THEN LocalDestination(t, config[t]) ELSE RemoteDestination

StartedAndStopped(t) == pre.tasks[t].is_started /\ pre.tasks[t].is_stopped

\* C21: a collect_results() that finds the file it would write already at
\* its destination raises the 'destination exists' error and leaves what
\* was collected as it is: a collected file is never written over.
C21_NoOverwrite ==
  (/\ RunnerOp("runner.collect_results")
   /\ StartedAndStopped(Target)
   /\ HasFilepath(config[Target])
   /\ Target \in pre.disk.output
   /\ pre.disk.collect_dir
   /\ Destination(Target) \in pre.disk.collected) =>
    /\ outcome = [exc |-> "ObjectRunnersException", why |-> "destination exists"]
    /\ disk = pre.disk

\* C22: collect_results() of a started and stopped runner whose object has
\* an output file that does not exist raises the 'no output' error and makes
\* or copies nothing.
C22_NoOutputProduced ==
  (/\ RunnerOp("runner.collect_results")
   /\ StartedAndStopped(Target)
   /\ HasFilepath(config[Target])
   /\ Target \notin pre.disk.output) =>
    /\ outcome = [exc |-> "ObjectRunnersException", why |-> "no output"]
    /\ disk = pre.disk

\* the case of C23: a started and stopped runner whose object has no output
\* file
NothingToCollect ==
  /\ RunnerOp("runner.collect_results")
  /\ StartedAndStopped(Target)
  /\ ~HasFilepath(config[Target])

C24_RemoteDirectoryFailure ==
  (/\ RunnerOp("runner.start")
   /\ \E i \in EventsOf("mkdir", Target) : trace[i].res \in MkdirFaults) =>
    /\ outcome.exc = "ObjectRunnersException"
    /\ EventsOf("spawn", Target) = {}
    /\ ~tasks[Target].is_started

\* C25: what is collected lands at <collect_results_path>/local/<filename>
\* for a local runner and at <collect_results_path>/<username>@<host>/<filename>
\* for a remote one, and nowhere else.
C25_CollectedLayout ==
  \A f \in disk.collected :
    \E t \in Tasks :
      \/ /\ config[t].runner_type = "local-runner"
         /\ f = <<"collect_results_path", "local", Filename(t, config[t])>>
      \/ /\ config[t].runner_type = "remote-runner"
         /\ f = <<"collect_results_path", "username@host", Filename(t, config[t])>>

(***************************************************************************)
(* Claims about the objects and the factory                                 *)
(***************************************************************************)
\* the object that was made is of class c
Made(c) == obj.object # None /\ Value(obj.object).class = c

\* the place of the URI in the arguments of srt-xtransmit
URIIndex == IF obj.config.type \in {"snd", "rcv"} THEN 3 ELSE 2

\* srt://<host>:<port>
BaseURI == S("srt://") \o obj.config.host \o S(":") \o obj.config.port

\* q is the pairs as key=value joined with '&', in the order of the pairs
IsQueryOf(q, pairs) ==
  /\ Len(q) = 4 * Len(pairs) - 1
  /\ \A i \in DOMAIN pairs :
       /\ <<q[4 * i - 3]>> = pairs[i][1]
       /\ q[4 * i - 2] = "="
       /\ <<q[4 * i - 1]>> = pairs[i][2]
       /\ i < Len(pairs) => q[4 * i] = "&"

\* C26: the query of srt-xtransmit is the attribute pairs as key=value,
\* joined with '&' in the order given; for an empty list of pairs no query
\* is appended and the URI of make_args holds no '?'.
C26_QueryString ==
  (obj.call = "make_args" /\ Made("SrtXtransmit")) =>
    LET uri == obj.args[URIIndex]
        av == obj.config.attrs_values
    IN /\ (av = None \/ av = Some(<<>>)) => ~Contains(uri, "?")
       /\ (av # None /\ av # Some(<<>>)) =>
            /\ SubSeq(uri, 1, Len(BaseURI) + 1) = BaseURI \o S("?")
            /\ IsQueryOf(SubSeq(uri, Len(BaseURI) + 2, Len(uri)), Value(av))

\* the arguments joined with single spaces, those with whitespace or with
\* 'srt://' in them in double quotes
Rendered(args) ==
  Join([i \in DOMAIN args |->
         IF Contains(args[i], " ") \/ Contains(args[i], "srt://")
         THEN Quote(args[i]) ELSE args[i]],
       S(" "))

\* C27: for every object, make_str() is the arguments of make_args() joined
\* with single spaces, every argument that holds whitespace or 'srt://' in
\* double quotes and every other argument as it is.
C27_MakeStr ==
  (obj.call = "make_str" /\ obj.object # None) =>
    obj.str = Rendered(make_args(Value(obj.object)))

\* the arguments of srt-xtransmit up to the statistics: the path, the
\* subcommand of the type, the URI and the option pairs in their order
ArgsHead(sub, uri) ==
  LET ov == IF obj.config.options_values = None THEN <<>>
            ELSE Value(obj.config.options_values)
  IN /\ Len(obj.args) >= URIIndex + 2 * Len(ov)
     /\ obj.args[1] = obj.config.path
     /\ URIIndex = 3 => obj.args[2] = S(sub)
     /\ obj.args[URIIndex] = uri
     /\ \A k \in DOMAIN ov : /\ obj.args[URIIndex + 2 * k - 1] = ov[k][1]
                             /\ obj.args[URIIndex + 2 * k] = ov[k][2]

\* the arguments after the option pairs
ArgsTail ==
  LET ov == IF obj.config.options_values = None THEN <<>>
            ELSE Value(obj.config.options_values)
  IN SubSeq(obj.args, URIIndex + 2 * Len(ov) + 1, Len(obj.args))

Subcommand == IF obj.config.type = "snd" THEN "generate" ELSE "receive"

ExpectedURI ==
  IF obj.config.attrs_values = None THEN BaseURI
  ELSE BaseURI \o S("?") \o get_query(Value(obj.config.attrs_values))

StatsFile == Value(Value(obj.object).filepath)

C29_DirpathIsParent ==
  obj.object # None =>
    LET o == Value(obj.object) IN
    /\ o.filepath # None =>
         /\ o.dirpath # None
         /\ Parent(Value(o.filepath)) = Value(o.dirpath)
    /\ o.class = "Netem" => (o.filepath = None /\ o.dirpath = None)

\* C29 witness: srt-xtransmit made with statsdir has its file in statsdir,
\* and one made without has no file.
C29_Witness ==
  /\ Made("SrtXtransmit")
  /\ obj.config.statsdir # None
  /\ Value(obj.object).filepath # None
  /\ Value(Value(obj.object).dirpath) = Path(Value(obj.config.statsdir))

UnknownType(t) ==
  \/ config[t].obj_type \notin {"tshark", "srt-xtransmit", "netem"}
  \/ config[t].runner_type \notin {"local-runner", "remote-runner"}

\* C31: a configuration whose task names an unknown object type or an
\* unknown runner type makes the construction of the orchestrator fail: no
\* orchestrator with a task without object or runner exists, start() is not
\* reached, no results directory is made and no task is started.
C31_UnknownTypeIsFatal ==
  (built.pc \in {"built", "failed"} /\ \E t \in Tasks : UnknownType(t)) =>
    /\ built.pc = "failed"
    /\ op # "start"
    /\ ~disk.collect_dir
    /\ \A t \in Tasks : tasks[t].runner.process = "None"

\* the name of the output file of an object
OutputFilename(object) == Value(object.filepath)[Len(Value(object.filepath))]

\* C39: in an orchestrator built from a configuration, the prefix of every
\* object is the key of its task, two tasks whose objects have an output
\* file never have the same output filename, and the collect_results_path
\* of every runner is that of the orchestrator.
C39_KeyAndPathInjected ==
  built.pc = "built" =>
    /\ \A t \in Tasks : built.obj[t] # None =>
         Value(built.obj[t]).attrs.prefix = Some(built.key[t])
    /\ \A t, u \in Tasks :
         (/\ t # u
          /\ built.obj[t] # None /\ Value(built.obj[t]).filepath # None
          /\ built.obj[u] # None /\ Value(built.obj[u]).filepath # None) =>
           OutputFilename(Value(built.obj[t])) # OutputFilename(Value(built.obj[u]))
    /\ \A t \in Tasks : built.obj_runner[t] # None =>
         Value(built.obj_runner[t]).collect_results_path
           = Path(built.collect_results_path)

\* C39 witness: an orchestrator was built whose first two tasks run objects
\* of the same class that write an output file, one with a local and one
\* with a remote runner.
C39_Witness ==
  /\ built.pc = "built"
  /\ built.obj[1] # None /\ built.obj[2] # None
  /\ Value(built.obj[1]).class = Value(built.obj[2]).class
  /\ Value(built.obj[1]).filepath # None /\ Value(built.obj[2]).filepath # None
  /\ built.obj_runner[1] # None /\ built.obj_runner[2] # None
  /\ Value(built.obj_runner[1]).class # Value(built.obj_runner[2]).class

(***************************************************************************)
(* Claims about the loop of stop()                                          *)
(***************************************************************************)
\* place j of the trace is after the stop attempt at place i and before the
\* stop attempt of any other task that follows it
BeforeNextStop(t, i, j) ==
  /\ i < j
  /\ \A u \in Tasks \ {t} : \A k \in EventsOf("stop", u) : ~(i < k /\ k < j)

\* C32: in stop(), after the stop attempt of a task, whether it succeeded or
\* failed, the task's sleep_after_stop is slept when it is set, before the
\* stop attempt of the next task; it is not slept when it is not set.
C32_SleepAfterEveryStop ==
  StopRan =>
    \A t \in Tasks : \A i \in EventsOf("stop", t) :
      IF config[t].sleep_after_stop
      THEN \E j \in EventsOf("sleep_after_stop", t) : BeforeNextStop(t, i, j)
      ELSE EventsOf("sleep_after_stop", t) = {}

\* C32 witness: the stop of a task with a sleep_after_stop failed, the sleep
\* was slept and the stop of another task was attempted after it.
C32_Witness ==
  /\ StopRan
  /\ \E t \in FailedStops : \E j \in EventsOf("sleep_after_stop", t) :
       \E u \in Tasks \ {t} : \E k \in EventsOf("stop", u) : j < k

(***************************************************************************)
(* Claims about the flags of the runners and of the process wrapper         *)
(***************************************************************************)
\* C33: for every runner, local or remote, and any sequence of start(),
\* stop() and collect_results(): is_started and is_stopped are false after
\* construction, neither is reset once it is true, and is_stopped implies
\* is_started.
C33_RunnerFlags ==
  /\ \A t \in Tasks : ~tasks[t].is_started /\ ~tasks[t].is_stopped
  /\ [](\A t \in Tasks : tasks[t].is_stopped => tasks[t].is_started)
  /\ [][\A t \in Tasks : /\ tasks[t].is_started => tasks'[t].is_started
                         /\ tasks[t].is_stopped => tasks'[t].is_stopped]_vars

\* C33 witness: start() was called on a remote runner that was started and
\* stopped, and both flags are still true.
C33_Witness ==
  /\ RunnerOp("runner.start")
  /\ config[Target].runner_type = "remote-runner"
  /\ pre.tasks[Target].is_started /\ pre.tasks[Target].is_stopped
  /\ tasks[Target].is_started /\ tasks[Target].is_stopped

\* the last call was method `name` of the Process of task Target
ProcessOp(name) == op = name /\ trace # <<>>

\* stop() found the process started, not stopped, and running when it read
\* its status
StoppedRunning ==
  /\ ProcessOp("process.stop")
  /\ pre.tasks[Target].runner.is_started
  /\ ~pre.tasks[Target].runner.is_stopped
  /\ Len(trace) >= 2 /\ trace[2] = Event("poll", Target, "running")

\* C34: Process.stop() on a running process sends SIGINT first and then
\* polls up to three times, until a poll sees the process idle; kill is sent
\* only after SIGINT and after three polls that all saw it running, and is
\* followed by one more poll; stop() raises exactly when this last poll
\* still sees the process running, and is_stopped of the Process is then
\* false.
C34_ProcessStop ==
  StoppedRunning =>
    LET sigint == EventsOf("SIGINT", Target)
        kill == EventsOf("kill", Target)
        \* the polls of the loop of _terminate
        loop == {i \in EventsOf("poll", Target) :
                   3 < i /\ i <= 6 /\ \A j \in 4..i : trace[j].ev = "poll"}
    IN /\ sigint = {3}
       /\ loop # {} /\ Cardinality(loop) <= 3
       /\ \A i \in loop : trace[i].res = "idle" =>
            /\ \A j \in loop : j <= i
            /\ Len(trace) = i
       /\ Cardinality(kill) <= 1
       /\ \A k \in kill :
            /\ Cardinality(loop) = 3
            /\ \A i \in EventsOf("poll", Target) : i < k => trace[i].res = "running"
            /\ {i \in EventsOf("poll", Target) : i > k} = {k + 1}
       /\ outcome.exc # "none" <=>
            \E k \in kill : trace[k + 1] = Event("poll", Target, "running")
       /\ outcome.exc # "none" => ~tasks[Target].runner.is_stopped
       /\ outcome.exc = "none" => tasks[Target].runner.is_stopped

\* C34 witness: the process was running through the three polls and after
\* the kill, and stop() raised with is_stopped false.
C34_Witness ==
  /\ StoppedRunning
  /\ EventsOf("kill", Target) # {}
  /\ outcome.exc = "SrtUtilsException"
  /\ ~tasks[Target].runner.is_stopped
  /\ tasks[Target].runner.process = "running"

\* C35: Process.start() raises when the Process is started already; and
\* for every argument vector, when the spawned process has exited by the
\* end of the grace period, start() raises instead of returning.
C35_ProcessStart ==
  ProcessOp("process.start") =>
    /\ pre.tasks[Target].runner.is_started =>
         /\ outcome.exc = "SrtUtilsException"
         /\ EventsOf("spawn", Target) = {}
    /\ (\E i \in EventsOf("spawn", Target) : trace[i].res = "exited") =>
         outcome.exc = "SrtUtilsException"

\* C36: the status of a Process: read before start() it raises; read once
\* the Process is started it does not raise and is running with no
\* returncode, or idle with the returncode.
C36_ProcessStatus ==
  ProcessOp("process.status") =>
    IF ~pre.tasks[Target].runner.is_started
    THEN outcome.exc # "none"
    ELSE /\ outcome.exc = "none"
         /\ \/ outcome.why = "running" /\ trace[1].res = "None"
            \/ outcome.why = "idle" /\ trace[1].res = "returncode"

\* C40: for every Process and any sequence of start(), stop(), status and
\* collect_results(): is_stopped implies is_started and implies that the
\* process is not running, and a started Process holds a process handle.
C40_ProcessFlags ==
  \A t \in Tasks :
    LET p == tasks[t].runner IN
    /\ p.is_stopped => p.is_started /\ p.process = "exited"
    /\ p.is_started => p.process # "None"

\* C40 witness: the status of a stopped Process was read, and it is idle.
C40_Witness ==
  /\ ProcessOp("process.status")
  /\ pre.tasks[Target].runner.is_stopped
  /\ tasks[Target].runner.is_started
  /\ tasks[Target].runner.process = "exited"
  /\ outcome.why = "idle"

(***************************************************************************)
(* Claims about the orchestrator after a call that failed                   *)
(***************************************************************************)
\* the orchestrator as start() leaves it when a task after the first failed
\* to start: it is not started, and runners of its tasks are
HalfStarted(o) == ~o.is_started /\ \E t \in Tasks : o.tasks[t].is_started

\* C37: a start() that failed at a task after the first leaves is_started
\* false and the tasks before it started, as they were.  Whatever is called
\* from then on, is_started stays false; stop() raises 'not started' and
\* stops nothing, and no call but clean_up() attempts to stop a task.
C37_HalfStarted ==
  /\ (op = "start" /\ \E k \in FailedStarts : k > 1) =>
       /\ ~is_started
       /\ \A k \in FailedStarts : \A t \in 1..(k - 1) :
            /\ tasks[t].is_started
            /\ EventsOf("stop", t) = {}
  /\ (HalfStarted(pre) /\ op # "env") =>
       /\ ~is_started
       /\ op = "stop" =>
            /\ outcome = [exc |-> "SrtUtilsException", why |-> "not started"]
            /\ NoRunnerTouched
       /\ op # "clean_up" =>
            /\ Attempted("stop") = {}
            /\ tasks = pre.tasks

\* C37 witness: stop() was called while the orchestrator was not started and
\* its first task was running, and the task is still running.
C37_Witness ==
  /\ op = "stop"
  /\ HalfStarted(pre)
  /\ 1 \in pre.running
  /\ outcome.why = "not started"
  /\ tasks[1].runner.process = "running"

=============================================================================
